---- MODULE Spec2Model ----
(***************************************************************************)
(* Verification model of the Gemini -> OpenAI proxy (DenoGemini).          *)
(*                                                                         *)
(* Part 1: ConcurrencyManager (services/geminiClient.ts, second half).     *)
(* Part 2: GeminiClient.makeRequest retry loop and ConfigManager keys.     *)
(* Part 3: the HTTP handler handleChatCompletions.                         *)
(* Part 4: the timeout of one attempt.  Part 5: ImageCache.                *)
(* Part 6: ConnectionPool.  Part 7: the request and response transformers. *)
(*                                                                         *)
(* JavaScript runs handlers to completion on one event loop.  Each action  *)
(* below is one such run; the synchronous loop of processQueue is unrolled *)
(* into steps guarded by cmPc = "loop", during which no other handler of   *)
(* the manager can run.                                                    *)
(***************************************************************************)
EXTENDS Integers, Sequences, FiniteSets, TLC

\* ------------------------------------------------------------------ bounds
\* number of executeRequest calls explored in SpecCM
MaxCalls == 3
\* number of executeRequest calls explored in SpecCMPrio
MaxPrioCalls == 4
\* number of executeRequest calls remembered at a time in FairSpecCMLive
MaxLiveCalls == 3
\* number of executeRequest calls explored in SpecCMKeys
MaxKeyCalls == 3
\* the clock (Date.now(), in units of one rate-limit window) stops here
MaxTime == 2
\* the largest value a counter of the statistics takes: a JavaScript number
\* stops counting at 2^53 (2^53 + 1 is 2^53), the model's at MaxCount
MaxCount == 4
\* updateStats keeps the last 1000 response times and cleanupStats cuts a
\* window of more than 500 down to 500; the model's windows are this long
ResponseWindow == 2
CleanupWindow == 1

\* the largest number of configured API keys
MaxKeys == 3
\* the largest configured MAX_RETRIES
MaxCfgRetries == 3
\* concurrent inbound HTTP requests
MaxHandlers == 3

\* ImageCache: MAX_CACHE_SIZE is 50 and CACHE_TTL 30 minutes; the model's
\* cache holds MaxCacheSize entries for CacheTtl ticks of its clock, which
\* stops at MaxCacheTime
MaxCacheSize == 2
CacheTtl == 1
MaxCacheTime == 2

\* ConnectionPool: maxConnections is 20 and connectionTimeout 30 s; the
\* model's pool holds MaxConnections entries, idle ones for
\* ConnectionTimeout ticks of its clock, which stops at MaxPoolTime
MaxConnections == 2
ConnectionTimeout == 1
MaxPoolTime == 2
\* the largest number of callers that hold one endpoint at once
MaxHolders == 2

\* the configured REQUEST_TIMEOUT values are the first multiples of its
\* default
MaxTimeoutSteps == 10

\* ------------------------------------------------------- program constants
\* REQUEST_TIMEOUT defaults to 30000 ms
DefaultRequestTimeout == 30000
\* the timeouts of a request to a 2.5 model, and the budget that counts as
\* large
LargeThinkingTimeout == 120000
ThinkingTimeout == 60000
LargeMaxTokens == 10000
DefaultMaxTokens == 1000
\* the cap of the backoff delay, in ms
BackoffCap == 10000
\* the rate-limit window of 60000 ms is the unit of the model's clock
ResetWindow == 1

NoKey == "undefined"
ApiKeys == {"k1"}
RequestIds == {"a", "b"}
Priorities == {0, 1}
MaxRequestsArgs == {1, 2}

Min(S) == CHOOSE x \in S : \A y \in S : x <= y

VARIABLES
  maxConcurrentRequests, \* ConcurrencyManager.maxConcurrentRequests
  maxQueueSize,          \* ConcurrencyManager.maxQueueSize
  requestQueue,          \* ConcurrencyManager.requestQueue
  activeRequests,        \* ConcurrencyManager.activeRequests (a Set of ids)
  processing,            \* ConcurrencyManager.processing
  stats,                 \* ConcurrencyManager.stats
  apiLimits,             \* ConcurrencyManager.apiLimits (a Map key -> limit)
  now,                   \* Date.now()
  call,                  \* history: call number -> the executeRequest call
  cmPc,                  \* "idle", or "loop" inside processQueue's while
  shutdownPc,            \* position of shutdown(): "none", "waiting", "done"
  shutdownSnapshot,      \* history: the calls queued when shutdown was called
  health                 \* what the latest getHealthStatus() returned

cmvars == <<maxConcurrentRequests, maxQueueSize, requestQueue, activeRequests,
            processing, stats, apiLimits, now, call, cmPc, shutdownPc,
            shutdownSnapshot, health>>

\* GeminiClient.makeRequest and ConfigManager
VARIABLES
  configMaxRetries,      \* config.maxRetries
  keyCount,              \* config.geminiApiKeys.length; the keys are 0..keyCount-1
  currentKeyIndex,       \* ConfigManager.currentKeyIndex
  mrPc,                  \* "idle", "fetch", "backoff" or "done"
  retryCount,            \* the retryCount argument of the running attempt
  script,                \* what the backend answers to attempt 1, 2, ...
  keysUsed,              \* history: the key index of each attempt made
  mrResult,              \* what makeRequest returned or threw
  delay,                 \* the backoff delay being awaited, in ms
  firstKeys              \* history: the first-attempt keys of the latest
                         \* consecutive requests that succeeded at once

mrvars == <<configMaxRetries, keyCount, currentKeyIndex, mrPc, retryCount,
            script, keysUsed, mrResult, delay, firstKeys>>

\* the HTTP server: one record per inbound POST /v1/chat/completions
VARIABLES srv

srvvars == <<srv>>

\* the timer of one makeRequest attempt: the inputs and the timeout chosen
VARIABLES tm

tmvars == <<tm>>

\* ImageCache
VARIABLES
  cache,                 \* ImageCache.cache: the entries in insertion order
  icNow,                 \* Date.now() as the cache sees it
  icHist                 \* history: the latest set and the get that followed

icvars == <<cache, icNow, icHist>>

\* ConnectionPool
VARIABLES
  connections,           \* ConnectionPool.connections, in insertion order
  cpNow,                 \* Date.now() as the pool sees it
  holders                \* history: per URL, the getConnection calls not
                         \* yet followed by their releaseConnection

cpvars == <<connections, cpNow, holders>>

\* the transformers: the latest exchange, its request as sent to the backend
\* and the response returned to the client
VARIABLES rt

rtvars == <<rt>>

\* the stream reassembler: the backend's bytes on their way and the state
\* of createGeminiToOpenAISSEStream
VARIABLES sse

ssevars == <<sse>>

vars == <<cmvars, mrvars, srvvars, tmvars, icvars, cpvars, rtvars, ssevars>>

\* what the ConcurrencyManager's methods leave alone
notcm == <<mrvars, srvvars, tmvars, icvars, cpvars, rtvars,
          ssevars>>
\* what makeRequest's retry loop leaves alone
notmr == <<cmvars, srvvars, tmvars, icvars, cpvars, rtvars,
          ssevars>>
\* what handleChatCompletions leaves alone
notsrv == <<cmvars, mrvars, tmvars, icvars, cpvars, rtvars,
          ssevars>>
\* what the choice of the timeout leaves alone
nottm == <<cmvars, mrvars, srvvars, icvars, cpvars, rtvars,
          ssevars>>
\* what the ImageCache leaves alone
notic == <<cmvars, mrvars, srvvars, tmvars, cpvars, rtvars,
          ssevars>>
\* what the transformers leave alone
notrt == <<cmvars, mrvars, srvvars, tmvars, icvars, cpvars, ssevars>>
\* what the stream reassembler leaves alone
notsse == <<cmvars, mrvars, srvvars, tmvars, icvars, cpvars, rtvars>>
\* what the ConnectionPool leaves alone
notcp == <<cmvars, mrvars, srvvars, tmvars, icvars, rtvars,
          ssevars>>

\* ======================================================================
\* Part 1: ConcurrencyManager
\* ======================================================================

EmptyMap == [k \in {} |-> 0]

\* getHealthStatus has not been called
NoHealth ==
  [status |-> "none", queueUtilization |-> 0, concurrencyUtilization |-> 0,
   averageResponseTime |-> 0, successRate |-> 0]

\* constructor(maxConcurrentRequests = 50, maxQueueSize = 1000), scaled down
CMInit(c, q) ==
  /\ maxConcurrentRequests = c
  /\ maxQueueSize = q
  /\ requestQueue = <<>>
  /\ activeRequests = {}
  /\ processing = FALSE
  /\ stats = [totalRequests |-> 0, completedRequests |-> 0,
              failedRequests |-> 0, queuedRequests |-> 0,
              responseTimes |-> <<>>]
  /\ apiLimits = EmptyMap
  /\ now = 0
  /\ call = EmptyMap
  /\ cmPc = "idle"
  /\ shutdownPc = "none"
  /\ shutdownSnapshot = {}
  /\ health = NoHealth

\* Map.set(key, value)
MapSet(m, k, v) == [x \in (DOMAIN m) \cup {k} |-> IF x = k THEN v ELSE m[x]]

\* Map.delete over a set of keys
MapDelete(m, ks) == [x \in (DOMAIN m) \ ks |-> m[x]]

\* isApiLimited: the value it returns
IsApiLimited(apiKey) ==
  IF apiKey \notin DOMAIN apiLimits THEN FALSE
  ELSE IF now > apiLimits[apiKey].resetTime THEN FALSE
  ELSE apiLimits[apiKey].requests >= apiLimits[apiKey].maxRequests

\* isApiLimited: the map it leaves (an expired window is reset)
ApiLimitsAfterCheck(apiKey) ==
  IF apiKey \in DOMAIN apiLimits /\ now > apiLimits[apiKey].resetTime
  THEN MapSet(apiLimits, apiKey,
              [requests |-> 0, resetTime |-> now + ResetWindow,
               maxRequests |-> apiLimits[apiKey].maxRequests])
  ELSE apiLimits

\* the queue-size check of executeRequest
QueueFull_off == Len(requestQueue) > maxQueueSize
QueueFull_withActive ==
  Len(requestQueue) + Cardinality(activeRequests) >= maxQueueSize
QueueFull == Len(requestQueue) >= maxQueueSize

\* insertByPriority: before the first entry of strictly lower priority
InsertByPriority_push(q, request) == Append(q, request)
InsertByPriority(q, request) ==
  LET lower == {i \in 1..Len(q) : request.priority > q[i].priority}
  IN IF lower = {} THEN Append(q, request)
     ELSE SubSeq(q, 1, Min(lower) - 1) \o <<request>>
          \o SubSeq(q, Min(lower), Len(q))

\* the loop condition of processQueue
CanDispatch ==
  /\ Len(requestQueue) > 0
  /\ Cardinality(activeRequests) < maxConcurrentRequests

\* the finally block's test before it calls processQueue again
ContinueQueue_never(q) == FALSE
ContinueQueue(q) == Len(q) > 0

\* a call to processQueue from a handler: returns at once when processing,
\* otherwise sets the flag and enters the while loop
EnterProcessQueue ==
  IF processing THEN UNCHANGED <<processing, cmPc>>
  ELSE processing' = TRUE /\ cmPc' = "loop"

\* counter++
Inc(n) == IF n < MaxCount THEN n + 1 ELSE n

\* the number under which the next executeRequest call is remembered
NextCallNo ==
  Min({n \in 1..(Cardinality(DOMAIN call) + 1) : n \notin DOMAIN call})

\* invoked counts the calls of request.execute(), settled the calls of
\* request.resolve and request.reject
NewCall(id, priority, apiKey, exec, promise, error) ==
  [id |-> id, priority |-> priority, apiKey |-> apiKey, exec |-> exec,
   promise |-> promise, error |-> error, startTime |-> 0,
   invoked |-> 0, settled |-> 0,
   qlenAtCall |-> Len(requestQueue),
   activeAtCall |-> Cardinality(activeRequests)]

\* executeRequest(requestId, executor, priority, apiKey)
ExecuteRequest(id, priority, apiKey) ==
  /\ cmPc = "idle"
  /\ IF apiKey # NoKey /\ IsApiLimited(apiKey)
     THEN /\ apiLimits' = ApiLimitsAfterCheck(apiKey)
          /\ call' = MapSet(call, NextCallNo,
                            NewCall(id, priority, apiKey, "none",
                                    "rejected", "limited"))
          /\ UNCHANGED <<requestQueue, stats, processing, cmPc>>
     ELSE /\ apiLimits' = IF apiKey # NoKey THEN ApiLimitsAfterCheck(apiKey)
                          ELSE apiLimits
          /\ IF QueueFull
             THEN /\ stats' = [stats EXCEPT !.failedRequests = Inc(@)]
                  /\ call' = MapSet(call, NextCallNo,
                                    NewCall(id, priority, apiKey, "none",
                                            "rejected", "full"))
                  /\ UNCHANGED <<requestQueue, processing, cmPc>>
             ELSE /\ stats' = [stats EXCEPT !.totalRequests = Inc(@),
                                            !.queuedRequests = Inc(@)]
                  /\ call' = MapSet(call, NextCallNo,
                                    NewCall(id, priority, apiKey, "none",
                                            "pending", ""))
                  /\ requestQueue' = InsertByPriority(requestQueue,
                       [id |-> id, priority |-> priority, timestamp |-> now,
                        req |-> NextCallNo])
                  /\ EnterProcessQueue
  /\ UNCHANGED health
  /\ UNCHANGED <<maxConcurrentRequests, maxQueueSize, activeRequests, now,
                 shutdownPc, shutdownSnapshot>>
  /\ UNCHANGED notcm

\* one iteration of processQueue's while loop, or its exit; an iteration
\* shifts the head, adds its id to activeRequests and runs
\* executeRequestAsync up to its await, which invokes the executor
ProcessQueueStep ==
  /\ cmPc = "loop"
  /\ IF CanDispatch
     THEN LET request == Head(requestQueue) IN
          /\ requestQueue' = Tail(requestQueue)
          /\ stats' = [stats EXCEPT !.queuedRequests = @ - 1]
          /\ activeRequests' = activeRequests \cup {request.id}
          /\ call' = [call EXCEPT ![request.req].exec = "running",
                                  ![request.req].startTime = now,
                                  ![request.req].invoked = @ + 1]
          /\ UNCHANGED <<processing, cmPc>>
     ELSE /\ processing' = FALSE
          /\ cmPc' = "idle"
          /\ UNCHANGED <<requestQueue, stats, activeRequests, call>>
  /\ UNCHANGED health
  /\ UNCHANGED <<maxConcurrentRequests, maxQueueSize, apiLimits, now,
                 shutdownPc, shutdownSnapshot>>
  /\ UNCHANGED notcm

\* the promise returned by request.execute() settles
ExecutorSettles(r, ok) ==
  /\ cmPc = "idle"
  /\ r \in DOMAIN call
  /\ call[r].exec = "running"
  /\ call' = [call EXCEPT ![r].exec = IF ok THEN "fulfilled" ELSE "failed"]
  /\ UNCHANGED health
  /\ UNCHANGED <<maxConcurrentRequests, maxQueueSize, requestQueue,
                 activeRequests, processing, stats, apiLimits, now, cmPc,
                 shutdownPc, shutdownSnapshot>>
  /\ UNCHANGED notcm

\* array.slice(-n)
LastN(seq, n) ==
  IF Len(seq) > n THEN SubSeq(seq, Len(seq) - n + 1, Len(seq)) ELSE seq

\* updateStats(responseTime, success)
UpdateStats(s, responseTime, success) ==
  LET times == Append(s.responseTimes, responseTime) IN
  [s EXCEPT !.completedRequests = IF success THEN Inc(@) ELSE @,
            !.failedRequests = IF success THEN @ ELSE Inc(@),
            !.responseTimes = IF Len(times) > ResponseWindow
                              THEN LastN(times, ResponseWindow) ELSE times]

RECURSIVE Sum(_)
Sum(seq) == IF seq = <<>> THEN 0 ELSE Head(seq) + Sum(Tail(seq))

\* stats.averageResponseTime, which updateStats recomputes from the
\* window on every completion (rounded down here)
AverageResponseTime ==
  IF stats.responseTimes = <<>> THEN 0
  ELSE Sum(stats.responseTimes) \div Len(stats.responseTimes)

\* executeRequestAsync after its await: resolve or reject, then finally
ExecuteRequestAsyncResume(r) ==
  /\ cmPc = "idle"
  /\ r \in DOMAIN call
  /\ call[r].exec \in {"fulfilled", "failed"}
  /\ call[r].promise = "pending"
  /\ stats' = UpdateStats(stats, now - call[r].startTime,
                          call[r].exec = "fulfilled")
  /\ call' = [call EXCEPT
       ![r].promise = IF call[r].exec = "fulfilled" THEN "resolved"
                      ELSE "rejected",
       ![r].error = IF call[r].exec = "fulfilled" THEN "" ELSE "executor",
       ![r].settled = @ + 1]
  /\ activeRequests' = activeRequests \ {call[r].id}
  /\ IF ContinueQueue(requestQueue) THEN EnterProcessQueue
     ELSE UNCHANGED <<processing, cmPc>>
  /\ UNCHANGED health
  /\ UNCHANGED <<maxConcurrentRequests, maxQueueSize, requestQueue, apiLimits,
                 now, shutdownPc, shutdownSnapshot>>
  /\ UNCHANGED notcm

\* recordApiUsage(apiKey, maxRequests = 60); callers record the requests
\* they send, and send none for a key that is at its limit
RecordApiUsage(apiKey, maxRequests) ==
  /\ cmPc = "idle"
  /\ LET limit == IF apiKey \in DOMAIN apiLimits THEN apiLimits[apiKey]
                  ELSE [requests |-> 0, resetTime |-> now + ResetWindow,
                        maxRequests |-> maxRequests]
     IN /\ limit.requests < limit.maxRequests
        /\ apiLimits' = MapSet(apiLimits, apiKey,
                               [limit EXCEPT !.requests = @ + 1])
  /\ UNCHANGED health
  /\ UNCHANGED <<maxConcurrentRequests, maxQueueSize, requestQueue,
                 activeRequests, processing, stats, now, call, cmPc,
                 shutdownPc, shutdownSnapshot>>
  /\ UNCHANGED notcm

\* cleanupStats, run by setInterval: expired limits are deleted and the
\* response-time window is cut
CleanupStats ==
  /\ cmPc = "idle"
  /\ apiLimits' = MapDelete(apiLimits,
       {k \in DOMAIN apiLimits : now > apiLimits[k].resetTime})
  /\ stats' = [stats EXCEPT !.responseTimes =
                 IF Len(@) > CleanupWindow THEN LastN(@, CleanupWindow) ELSE @]
  /\ UNCHANGED health
  /\ UNCHANGED <<maxConcurrentRequests, maxQueueSize, requestQueue,
                 activeRequests, processing, now, call, cmPc,
                 shutdownPc, shutdownSnapshot>>
  /\ UNCHANGED notcm

\* time passes between handlers
Tick ==
  /\ cmPc = "idle"
  /\ now < MaxTime
  /\ now' = now + 1
  /\ UNCHANGED health
  /\ UNCHANGED <<maxConcurrentRequests, maxQueueSize, requestQueue,
                 activeRequests, processing, stats, apiLimits, call, cmPc,
                 shutdownPc, shutdownSnapshot>>
  /\ UNCHANGED notcm

RejectQueued_pending(c, q) ==
  [r \in DOMAIN c |->
     IF c[r].promise = "pending"
     THEN [c[r] EXCEPT !.promise = "rejected", !.error = "shutdown",
                       !.settled = @ + 1]
     ELSE c[r]]

\* the part of shutdown() after its wait loop: reject every queued entry
\* and truncate the queue
RejectQueued(c, q) ==
  [r \in DOMAIN c |->
     IF \E i \in 1..Len(q) : q[i].req = r
     THEN [c[r] EXCEPT !.promise = "rejected", !.error = "shutdown",
                       !.settled = @ + 1]
     ELSE c[r]]

\* shutdown() up to its first await (or to its end when nothing is active)
Shutdown ==
  /\ cmPc = "idle"
  /\ shutdownPc = "none"
  /\ shutdownSnapshot' = {requestQueue[i].req : i \in 1..Len(requestQueue)}
  /\ IF Cardinality(activeRequests) > 0
     THEN /\ shutdownPc' = "waiting"
          /\ UNCHANGED <<requestQueue, call>>
     ELSE /\ call' = RejectQueued(call, requestQueue)
          /\ requestQueue' = <<>>
          /\ shutdownPc' = "done"
  /\ UNCHANGED health
  /\ UNCHANGED <<maxConcurrentRequests, maxQueueSize, activeRequests,
                 processing, stats, apiLimits, now, cmPc>>
  /\ UNCHANGED notcm

\* shutdown() resumed by its 1000 ms timer with no request active
ShutdownResume ==
  /\ cmPc = "idle"
  /\ shutdownPc = "waiting"
  /\ Cardinality(activeRequests) = 0
  /\ call' = RejectQueued(call, requestQueue)
  /\ requestQueue' = <<>>
  /\ shutdownPc' = "done"
  /\ UNCHANGED health
  /\ UNCHANGED <<maxConcurrentRequests, maxQueueSize, activeRequests,
                 processing, stats, apiLimits, now, cmPc, shutdownSnapshot>>
  /\ UNCHANGED notcm

\* getStats / getHealthStatus: the derived values
ActiveCount == Cardinality(activeRequests)
QueueLength == Len(requestQueue)

\* Math.round of the quotient n / d of two counts
Round(n, d) == (2 * n + d) \div (2 * d)

\* the status with the threshold 0.9 itself counted as degraded
HealthStatus_fromNinety(queueLength, active) ==
  LET status == IF \/ queueLength * 10 > 8 * maxQueueSize
                   \/ active * 10 >= 9 * maxConcurrentRequests
                THEN "degraded" ELSE "healthy"
  IN  IF \/ queueLength * 100 > 95 * maxQueueSize
         \/ active * 100 > 95 * maxConcurrentRequests
      THEN "overloaded" ELSE status

\* getHealthStatus: the status for stats.queueLength and
\* stats.activeRequests; queueLength / maxQueueSize > 0.8 is
\* queueLength * 10 > 8 * maxQueueSize, and so on
HealthStatus(queueLength, active) ==
  LET status == IF \/ queueLength * 10 > 8 * maxQueueSize
                   \/ active * 10 > 9 * maxConcurrentRequests
                THEN "degraded" ELSE "healthy"
  IN  IF \/ queueLength * 100 > 95 * maxQueueSize
         \/ active * 100 > 95 * maxConcurrentRequests
      THEN "overloaded" ELSE status

\* getHealthStatus()
GetHealthStatus ==
  /\ cmPc = "idle"
  /\ health' =
       [status |-> HealthStatus(QueueLength, ActiveCount),
        queueUtilization |-> Round(QueueLength * 100, maxQueueSize),
        concurrencyUtilization |->
          Round(ActiveCount * 100, maxConcurrentRequests),
        averageResponseTime |->
          IF stats.responseTimes = <<>> THEN 0
          ELSE Round(Sum(stats.responseTimes), Len(stats.responseTimes)),
        successRate |->
          IF stats.totalRequests > 0
          THEN Round(stats.completedRequests * 100, stats.totalRequests)
          ELSE 100]
  /\ UNCHANGED <<maxConcurrentRequests, maxQueueSize, requestQueue,
                 activeRequests, processing, stats, apiLimits, now, call,
                 cmPc, shutdownPc, shutdownSnapshot>>
  /\ UNCHANGED notcm

\* the executors that were started and have not settled
RunningExecutors == {r \in DOMAIN call : call[r].exec = "running"}

\* the caller of a settled call lets go of it: the history forgets the call
Forget(r) ==
  /\ cmPc = "idle"
  /\ r \in DOMAIN call
  /\ call[r].promise # "pending"
  /\ r \notin shutdownSnapshot
  /\ call' = MapDelete(call, {r})
  /\ UNCHANGED health
  /\ UNCHANGED <<maxConcurrentRequests, maxQueueSize, requestQueue,
                 activeRequests, processing, stats, apiLimits, now, cmPc,
                 shutdownPc, shutdownSnapshot>>
  /\ UNCHANGED notcm

Settles == \E r \in DOMAIN call, ok \in BOOLEAN : ExecutorSettles(r, ok)
Resumes == \E r \in DOMAIN call : ExecuteRequestAsyncResume(r)

\* ======================================================================
\* Part 2: GeminiClient.makeRequest and ConfigManager.getApiKey
\* ======================================================================

NoResult == [kind |-> "none", error |-> "", status |-> 0]

\* what one fetch can end with: a response, a network error, or the
\* AbortError raised when the attempt's timer aborts the call
Outcomes ==
  {[kind |-> "response", status |-> st] : st \in {200, 400, 429, 500}}
  \cup {[kind |-> "neterr", status |-> 0], [kind |-> "abort", status |-> 0]}

Scripts == [1..MaxKeys -> Outcomes]

\* no request is running: nothing is asked of the backend
NoScript == [i \in 1..MaxKeys |-> [kind |-> "response", status |-> 200]]

Jitters == {0, 999}

\* const maxRetries = Math.min(config.maxRetries, getApiKeyCount())
MaxRetries_configOnly == configMaxRetries
MaxRetries == Min({configMaxRetries, keyCount})

\* getApiKey(index): the index of the key it returns
GetApiKey(index) ==
  IF index >= 0 /\ index < keyCount THEN index ELSE currentKeyIndex

\* getApiKey(index): currentKeyIndex afterwards (getNextApiKey advances it)
KeyIndexAfterGet(index) ==
  IF index >= 0 /\ index < keyCount THEN currentKeyIndex
  ELSE IF keyCount = 0 THEN currentKeyIndex
  ELSE (currentKeyIndex + 1) % keyCount

\* response.status === 429 || response.status >= 500
IsRetryStatus_5xxOnly(status) == status >= 500
IsRetryStatus(status) == status = 429 \/ status >= 500

\* retryCount < maxRetries - 1
RetryAllowed_off(rc, maxR) == rc < maxR
RetryAllowed(rc, maxR) == rc < maxR - 1

\* Math.min(Math.pow(2, retryCount) * 1000 + Math.random() * 1000, 10000)
BackoffDelay(rc, jitter) == Min({(2 ^ rc) * 1000 + jitter, BackoffCap})

\* makeRequest(endpoint, request, stream, retryCount) up to its fetch
BeginAttempt(rc, used) ==
  /\ retryCount' = rc
  /\ delay' = 0
  /\ IF rc >= MaxRetries
     THEN /\ mrPc' = "done"
          /\ mrResult' = [kind |-> "throw", error |-> "exceeded", status |-> 0]
          /\ keysUsed' = used
          /\ UNCHANGED currentKeyIndex
     ELSE /\ mrPc' = "fetch"
          /\ mrResult' = NoResult
          /\ keysUsed' = Append(used, GetApiKey(rc))
          /\ currentKeyIndex' = KeyIndexAfterGet(rc)

\* a caller (generateContent, streamGenerateContent) calls makeRequest
MakeRequest(scr) ==
  /\ mrPc = "idle"
  /\ script' = scr
  /\ BeginAttempt(0, <<>>)
  /\ UNCHANGED <<configMaxRetries, keyCount, firstKeys>>
  /\ UNCHANGED notmr

\* the awaited fetch settles: try block after the await, or the catch block
FetchSettles(jitter) ==
  /\ mrPc = "fetch"
  /\ LET o == script[retryCount + 1] IN
     IF o.kind = "response"
     THEN IF IsRetryStatus(o.status) /\ RetryAllowed(retryCount, MaxRetries)
          THEN /\ mrPc' = "backoff"
               /\ delay' = BackoffDelay(retryCount, jitter)
               /\ UNCHANGED mrResult
          ELSE /\ mrPc' = "done"
               /\ mrResult' = [kind |-> "response", error |-> "",
                               status |-> o.status]
               /\ UNCHANGED delay
     ELSE IF o.kind = "abort"
     THEN /\ mrPc' = "done"
          /\ mrResult' = [kind |-> "throw", error |-> "timeout", status |-> 0]
          /\ UNCHANGED delay
     ELSE IF RetryAllowed(retryCount, MaxRetries)
          THEN /\ mrPc' = "backoff"
               /\ delay' = BackoffDelay(retryCount, jitter)
               /\ UNCHANGED mrResult
          ELSE /\ mrPc' = "done"
               /\ mrResult' = [kind |-> "throw", error |-> "network",
                               status |-> 0]
               /\ UNCHANGED delay
  /\ UNCHANGED <<configMaxRetries, keyCount, currentKeyIndex, retryCount,
                 script, keysUsed, firstKeys>>
  /\ UNCHANGED notmr

\* the caller's await of makeRequest resumes with the response or the error
\* (generateContent, streamGenerateContent); the client is free again
CallerResumes ==
  /\ mrPc = "done"
  /\ mrPc' = "idle"
  /\ retryCount' = 0
  /\ keysUsed' = <<>>
  /\ mrResult' = NoResult
  /\ script' = NoScript
  /\ firstKeys' = IF Len(keysUsed) = 1 /\ mrResult.kind = "response"
                      /\ mrResult.status = 200
                   THEN LastN(Append(firstKeys, keysUsed[1]), keyCount)
                   ELSE <<>>
  /\ UNCHANGED <<configMaxRetries, keyCount, currentKeyIndex, delay>>
  /\ UNCHANGED notmr

\* the backoff timer fires: return this.makeRequest(..., retryCount + 1)
BackoffElapses ==
  /\ mrPc = "backoff"
  /\ BeginAttempt(retryCount + 1, keysUsed)
  /\ UNCHANGED <<configMaxRetries, keyCount, script, firstKeys>>
  /\ UNCHANGED notmr

\* loadConfig: MAX_RETRIES and the number of GEMINI_API_KEYS
MRInit(retries, keys) ==
  /\ configMaxRetries = retries
  /\ keyCount = keys
  /\ currentKeyIndex = 0
  /\ mrPc = "idle"
  /\ retryCount = 0
  /\ script = NoScript
  /\ keysUsed = <<>>
  /\ mrResult = NoResult
  /\ delay = 0
  /\ firstKeys = <<>>

\* ======================================================================
\* Part 3: handleChatCompletions
\* ======================================================================

Handlers == 1..MaxHandlers

\* invalid records what the validation of the request found missing:
\* "model", "messages", "unknownModel", or "none"
SrvInit == srv = [h \in Handlers |->
                    [pc |-> "idle", status |-> 0, stream |-> FALSE,
                     backendCalls |-> 0, invalid |-> "none"]]

\* The messages field of the parsed body: absent, an array of messages, an
\* array that holds null, a string, an object without length (one message
\* that is not wrapped in an array), or an object with a length and no
\* elements.
MessagesFields ==
  {"absent", "array", "arrayOfNull", "string", "object", "arrayLike"}
RequestBodies == [hasModel : BOOLEAN, messages : MessagesFields]

\* Array.isArray(openaiRequest.messages)
IsArray(messages) == messages \in {"array", "arrayOfNull"}

\* the loop that logs the messages before the validation reads msg.role of
\* every element up to messages.length: it throws on an element that is
\* null or undefined
LogThrows(messages) == messages \in {"arrayOfNull", "arrayLike"}

\* the required field the validation finds missing or invalid
InvalidField(body) ==
  IF ~body.hasModel THEN "model"
  ELSE IF ~IsArray(body.messages) THEN "messages"
  ELSE "none"

\* getConfigStatus().configured, as far as the backend keys decide it
Configured == keyCount > 0

\* handleChatCompletions up to await req.json(): authentication and the
\* configuration check
Receive(h, authOk) ==
  /\ srv[h].pc = "idle"
  /\ srv' = [srv EXCEPT ![h] =
       IF ~authOk THEN [@ EXCEPT !.pc = "responded", !.status = 401]
       ELSE IF ~Configured THEN [@ EXCEPT !.pc = "responded", !.status = 503]
       ELSE [@ EXCEPT !.pc = "json"]]
  /\ UNCHANGED notsrv

\* req.json() settles; the messages are logged and the required fields are
\* validated up to await modelService.isValidModel; what is thrown on the
\* way is answered by the catch block with 500
ParseBody(h, jsonOk, body, stream) ==
  /\ srv[h].pc = "json"
  /\ srv' = [srv EXCEPT ![h] =
       IF ~jsonOk THEN [@ EXCEPT !.pc = "responded", !.status = 500]
       ELSE IF LogThrows(body.messages)
       THEN [@ EXCEPT !.pc = "responded", !.status = 500,
                      !.invalid = InvalidField(body)]
       ELSE IF InvalidField(body) # "none"
       THEN [@ EXCEPT !.pc = "responded", !.status = 400,
                      !.invalid = InvalidField(body)]
       ELSE [@ EXCEPT !.pc = "modelCheck", !.stream = stream]]
  /\ UNCHANGED notsrv

\* isValidModel settles; a known model is transformed and sent to
\* geminiClient.streamGenerateContent or geminiClient.generateContent
ModelChecked(h, isValidModel) ==
  /\ srv[h].pc = "modelCheck"
  /\ srv' = [srv EXCEPT ![h] =
       IF ~isValidModel
       THEN [@ EXCEPT !.pc = "responded", !.status = 400,
                      !.invalid = "unknownModel"]
       ELSE [@ EXCEPT !.pc = "backend", !.backendCalls = @ + 1]]
  /\ UNCHANGED notsrv

\* the awaited backend call settles: a 200 response, or the catch block
\* with the backend's error code or 500
BackendSettles(h, ok, code) ==
  /\ srv[h].pc = "backend"
  /\ srv' = [srv EXCEPT ![h] =
       [@ EXCEPT !.pc = "responded", !.status = IF ok THEN 200 ELSE code]]
  /\ UNCHANGED notsrv

\* the backend generation calls in flight
BackendInFlight == {h \in Handlers : srv[h].pc = "backend"}

\* ======================================================================
\* Part 4: the timeout of one attempt (makeRequest)
\* ======================================================================

\* config.requestTimeout: REQUEST_TIMEOUT, in ms
RequestTimeouts == {k * DefaultRequestTimeout : k \in 1..MaxTimeoutSteps}

\* request.generationConfig?.maxOutputTokens; 0 stands for a missing value
MaxOutputTokens == {0, 1000, 10000, 10001, 65536}

\* request.generationConfig?.maxOutputTokens || 1000
MaxTokens(maxOutputTokens) ==
  IF maxOutputTokens = 0 THEN DefaultMaxTokens ELSE maxOutputTokens

\* timeoutMs, from endpoint.includes("2.5"), the output budget and the
\* configured requestTimeout
TimeoutMs(isThinkingModel, maxOutputTokens, requestTimeout) ==
  IF isThinkingModel /\ MaxTokens(maxOutputTokens) > LargeMaxTokens
  THEN LargeThinkingTimeout
  ELSE IF isThinkingModel THEN ThinkingTimeout
  ELSE requestTimeout

TmInit(requestTimeout) ==
  tm = [requestTimeout |-> requestTimeout, isThinkingModel |-> FALSE,
        maxOutputTokens |-> 0, timeoutMs |-> 0]

\* setTimeout(() => controller.abort(), timeoutMs)
SetTimeout(isThinkingModel, maxOutputTokens) ==
  /\ tm' = [tm EXCEPT !.isThinkingModel = isThinkingModel,
                      !.maxOutputTokens = maxOutputTokens,
                      !.timeoutMs = TimeoutMs(isThinkingModel, maxOutputTokens,
                                              tm.requestTimeout)]
  /\ UNCHANGED nottm

\* ======================================================================
\* Part 5: ImageCache
\* ======================================================================

\* image URLs: a URL is the first 24 characters and the rest
Urls == {<<"u", "1">>, <<"u", "2">>, <<"v", "1">>, <<"w", "1">>}

\* what is stored for an image: base64 data, MIME type, size
Images == {[data |-> "d1", mimeType |-> "image/png", size |-> 1],
           [data |-> "d2", mimeType |-> "image/jpeg", size |-> 2]}

\* getCacheKey: btoa(url).slice(0, 32), the base64 of the first 24
\* characters of the URL
GetCacheKey(url) == url[1]

NoHist == [phase |-> "none"]
Miss == [hit |-> FALSE]

ICInit ==
  /\ cache = <<>>
  /\ icNow = 0
  /\ icHist = NoHist

\* the positions of the entries stored under a key (Map: at most one)
CacheIndex(c, key) == {i \in 1..Len(c) : c[i].key = key}

\* Map.delete(key)
CacheDelete(c, key) == SelectSeq(c, LAMBDA e : e.key # key)

\* Map.set(key, entry): an existing key keeps its place in the order
CacheSet(c, entry) ==
  IF CacheIndex(c, entry.key) = {} THEN Append(c, entry)
  ELSE [i \in 1..Len(c) |-> IF c[i].key = entry.key THEN entry ELSE c[i]]

\* Date.now() - entry.timestamp > this.CACHE_TTL
Expired_never(entry, t) == FALSE
Expired(entry, t) == t - entry.timestamp > CacheTtl

\* get(url): what it returns
GetResult(url) ==
  LET at == CacheIndex(cache, GetCacheKey(url)) IN
  IF at = {} THEN Miss
  ELSE LET entry == cache[Min(at)] IN
       IF Expired(entry, icNow) THEN Miss
       ELSE [hit |-> TRUE, data |-> entry.data, mimeType |-> entry.mimeType]

\* get(url)
CacheGet(url) ==
  /\ LET key == GetCacheKey(url)
         at == CacheIndex(cache, key)
     IN cache' = IF at # {} /\ Expired(cache[Min(at)], icNow)
                 THEN CacheDelete(cache, key) ELSE cache
  /\ icHist' = IF icHist.phase = "set" /\ icHist.url = url
                THEN [icHist EXCEPT !.phase = "got", !.gotAt = icNow,
                                    !.result = GetResult(url)]
                ELSE NoHist
  /\ UNCHANGED icNow
  /\ UNCHANGED notic

\* evictOldest: the first entry, in Map order, of the smallest timestamp
\* below Date.now(); nothing when there is none
EvictOldest(c, t) ==
  LET older == {i \in 1..Len(c) : c[i].timestamp < t} IN
  IF older = {} THEN c
  ELSE LET oldest == Min({i \in older :
                            \A j \in older : c[i].timestamp <= c[j].timestamp})
       IN IF c[oldest].key = "" THEN c ELSE CacheDelete(c, c[oldest].key)

\* set(url, data, mimeType, size); the entry remembers, as history, the
\* URL it was set for
CacheSetImage(url, image) ==
  /\ cache' = CacheSet(IF Len(cache) >= MaxCacheSize
                        THEN EvictOldest(cache, icNow) ELSE cache,
                        [key |-> GetCacheKey(url), data |-> image.data,
                         mimeType |-> image.mimeType, timestamp |-> icNow,
                         size |-> image.size, url |-> url])
  /\ icHist' = [phase |-> "set", url |-> url, image |-> image, at |-> icNow,
                gotAt |-> 0, result |-> Miss]
  /\ UNCHANGED icNow
  /\ UNCHANGED notic

\* cleanup(), run by setInterval
CacheCleanup ==
  /\ cache' = SelectSeq(cache, LAMBDA e : ~Expired(e, icNow))
  /\ icHist' = NoHist
  /\ UNCHANGED icNow
  /\ UNCHANGED notic

\* time passes
CacheTick ==
  /\ icNow < MaxCacheTime
  /\ icNow' = icNow + 1
  /\ UNCHANGED <<cache, icHist>>
  /\ UNCHANGED notic

\* ======================================================================
\* Part 6: ConnectionPool
\* ======================================================================

\* the endpoint URLs connections are asked for
Endpoints == {"e1", "e2", "e3"}

CPInit ==
  /\ connections = <<>>
  /\ cpNow = 0
  /\ holders = [url \in Endpoints |-> 0]

\* the positions of the entries stored under a URL (Map: at most one)
ConnIndex(c, url) == {i \in 1..Len(c) : c[i].url = url}

\* Map.set(url, entry): an existing URL keeps its place in the order
ConnSet(c, entry) ==
  IF ConnIndex(c, entry.url) = {} THEN Append(c, entry)
  ELSE [i \in 1..Len(c) |-> IF c[i].url = entry.url THEN entry ELSE c[i]]

\* cleanupOldestConnection: the first idle entry, in Map order, of the
\* smallest lastUsed below Date.now(); nothing when there is none
CleanupOldestConnection(c, t) ==
  LET idle == {i \in 1..Len(c) : ~c[i].inUse /\ c[i].lastUsed < t} IN
  IF idle = {} THEN c
  ELSE LET oldest == Min({i \in idle :
                            \A j \in idle : c[i].lastUsed <= c[j].lastUsed})
       IN IF c[oldest].url = "" THEN c
          ELSE SelectSeq(c, LAMBDA e : e.url # c[oldest].url)

\* getConnection(url)
GetConnection(url) ==
  /\ LET at == ConnIndex(connections, url) IN
     IF at # {} /\ ~connections[Min(at)].inUse
     THEN connections' = [connections EXCEPT ![Min(at)].inUse = TRUE,
                                             ![Min(at)].lastUsed = cpNow]
     ELSE connections' =
            ConnSet(IF Len(connections) >= MaxConnections
                    THEN CleanupOldestConnection(connections, cpNow)
                    ELSE connections,
                    [url |-> url, lastUsed |-> cpNow, inUse |-> TRUE])
  /\ holders' = [holders EXCEPT ![url] = @ + 1]
  /\ UNCHANGED cpNow
  /\ UNCHANGED notcp

\* releaseConnection(url)
ReleaseConnection(url) ==
  /\ LET at == ConnIndex(connections, url) IN
     IF at # {}
     THEN connections' = [connections EXCEPT ![Min(at)].inUse = FALSE,
                                             ![Min(at)].lastUsed = cpNow]
     ELSE UNCHANGED connections
  /\ holders' = [holders EXCEPT ![url] = IF @ > 0 THEN @ - 1 ELSE 0]
  /\ UNCHANGED cpNow
  /\ UNCHANGED notcp

\* cleanupConnections, run by setInterval
CleanupConnections ==
  /\ connections' = SelectSeq(connections, LAMBDA e :
         ~(~e.inUse /\ cpNow - e.lastUsed > ConnectionTimeout))
  /\ UNCHANGED <<cpNow, holders>>
  /\ UNCHANGED notcp

\* time passes
PoolTick ==
  /\ cpNow < MaxPoolTime
  /\ cpNow' = cpNow + 1
  /\ UNCHANGED <<connections, holders>>
  /\ UNCHANGED notcp

\* ======================================================================
\* Part 7: the transformers (transformers/geminiToOpenAI.ts, and the
\* thinking configuration of transformOpenAIRequestToGemini)
\* ======================================================================
\* A text is a sequence of tokens, each standing for one fixed string:
\*   "nl"   a line feed                 "sp"   a space
\*   "zhA"  a Chinese sentence of three characters ending in the
\*          ideographic full stop, as the backend writes it in an answer
\*   "zhT"  another such sentence, as the backend writes it while reasoning
\*   "en"   Okay, so.                   (an English sentence of reasoning)
\*   "hd"   **Plan**                    (a bold heading)
\*   "em"   * *                         (an emphasised blank)
\*   "wd"   Plan
\* and the fixed replies and delimiters of the transformer, below.  The
\* regular expressions of the source are applied to these strings.
Whitespace == {"nl", "sp"}
Chinese == {"zhA", "zhT"}

\* the replies the transformer writes itself
DefaultApology == "Sorry, I cannot generate a reply for now. Try again later."
SafetyApology == "Sorry, safety policy keeps me from replying. Rephrase."
RecitationApology == "Sorry, possible copyrighted content. Try another question."
MaxTokensApology == "The reply was too long and was cut. Ask for a shorter one."
OtherApology == "The reply could not be completed for technical reasons."
GenericApology == "The model produced no valid reply. Retry or rephrase."
FriendlyReply == "I understand your question, let me help you."
ProblemNote == "The request ran into a processing problem:"
ThinkOpen == "<think>"
ThinkClose == "</think>"

\* String.length of a token
TokenLen(t) ==
  CASE t \in Whitespace -> 1
    [] t \in Chinese \cup {"em"} -> 3
    [] t = "wd" -> 4
    [] t = "hd" -> 8
    [] t = "en" -> 9
    [] t = FriendlyReply -> 16
    [] OTHER -> 19

RECURSIVE CharLen(_)
CharLen(s) == IF s = <<>> THEN 0 ELSE TokenLen(Head(s)) + CharLen(Tail(s))

Max(S) == CHOOSE x \in S : \A y \in S : x >= y

Tokens(s) == {s[i] : i \in DOMAIN s}

RECURSIVE TrimLeft(_)
TrimLeft(s) ==
  IF s # <<>> /\ Head(s) \in Whitespace THEN TrimLeft(Tail(s)) ELSE s

RECURSIVE TrimRight(_)
TrimRight(s) ==
  IF s # <<>> /\ s[Len(s)] \in Whitespace
  THEN TrimRight(SubSeq(s, 1, Len(s) - 1))
  ELSE s

\* String.prototype.trim
Trim(s) == TrimRight(TrimLeft(s))

RECURSIVE KeepFrom(_, _, _)
KeepFrom(s, keep, i) ==
  IF i > Len(s) THEN <<>>
  ELSE (IF i \in keep THEN <<s[i]>> ELSE <<>>) \o KeepFrom(s, keep, i + 1)

\* what a global replace by '' leaves: the tokens at the indexes in keep
Keep(s, keep) == KeepFrom(s, keep, 1)

\* ^ under the m flag
AtLineStart(s, i) == i = 1 \/ s[i - 1] = "nl"

\* s[j..i] is white space
InRun(s, j, i) == \A m \in j..i : s[m] \in Whitespace

\* String.prototype.split('\n')
RECURSIVE SplitLines(_)
SplitLines(s) ==
  IF "nl" \notin Tokens(s) THEN <<s>>
  ELSE LET k == Min({i \in DOMAIN s : s[i] = "nl"})
       IN  <<SubSeq(s, 1, k - 1)>> \o SplitLines(SubSeq(s, k + 1, Len(s)))

\* Array.prototype.join('\n')
RECURSIVE JoinLines(_)
JoinLines(lines) ==
  IF lines = <<>> THEN <<>>
  ELSE IF Len(lines) = 1 THEN lines[1]
  ELSE lines[1] \o <<"nl">> \o JoinLines(Tail(lines))

\* the sentence "en" opens with one of the words both functions look for at
\* the start of a line, and ends at its full stop
RemoveEnglishOpeners(s) ==
  Keep(s, {i \in DOMAIN s : ~(s[i] = "en" /\ AtLineStart(s, i))})

\* /\*\*[^*]+\*\*/g matches the bold heading and nothing else of the tokens
RemoveHeadings(s) == SelectSeq(s, LAMBDA t : t # "hd")

\* /\n\s*\n/g -> '\n': of a run of white space, what follows its first line
\* feed up to its last line feed goes
InBlankLines(s, i) ==
  /\ s[i] \in Whitespace
  /\ \E j \in 1..(i - 1) : s[j] = "nl" /\ InRun(s, j, i)
  /\ \E k \in i..Len(s) : s[k] = "nl" /\ InRun(s, i, k)

\* filterThinkingContent
FilterThinkingContent(content) ==
  IF content = <<>> THEN content
  ELSE LET a == RemoveHeadings(RemoveEnglishOpeners(content))
           b == Keep(a, {i \in DOMAIN a : ~InBlankLines(a, i)})
           filtered == Trim(b)
       IN  IF 10 * CharLen(filtered) < 3 * CharLen(content) THEN content
           ELSE IF filtered # <<>> THEN filtered
           ELSE content

\* **text** -> text and *text* -> text
Unmark(t) == CASE t = "hd" -> "wd" [] t = "em" -> "sp" [] OTHER -> t

\* /^\s+/gm: white space reaching back to the start of its line
LeadingSpace(s, i) ==
  /\ s[i] \in Whitespace
  /\ \E j \in 1..i : AtLineStart(s, j) /\ InRun(s, j, i)

\* a line counts as short below this length
ShortLine == 50

\* the loop of cleanMarkdownFormatting over the lines (no token holds a
\* colon)
RECURSIVE OptimizeLines(_, _)
OptimizeLines(lines, optimizedLines) ==
  IF lines = <<>> THEN optimizedLines
  ELSE LET line == Trim(Head(lines))
       IN  IF line = <<>>
           THEN OptimizeLines(Tail(lines),
                  IF optimizedLines # <<>>
                     /\ optimizedLines[Len(optimizedLines)] # <<>>
                  THEN Append(optimizedLines, <<>>)
                  ELSE optimizedLines)
           ELSE IF /\ CharLen(line) < ShortLine
                   /\ Len(lines) >= 2
                   /\ Trim(lines[2]) # <<>>
                   /\ CharLen(Trim(lines[2])) < ShortLine
           THEN OptimizeLines(Tail(Tail(lines)),
                  Append(optimizedLines, line \o <<"sp">> \o Trim(lines[2])))
           ELSE OptimizeLines(Tail(lines), Append(optimizedLines, line))

\* cleanMarkdownFormatting; the tokens hold no list marker, and after the
\* white space at the line starts is gone no three line feeds are in a row
CleanMarkdownFormatting(content) ==
  IF content = <<>> THEN content
  ELSE LET a == [i \in DOMAIN content |-> Unmark(content[i])]
           b == Keep(a, {i \in DOMAIN a : ~LeadingSpace(a, i)})
           cleaned == Trim(b)
       IN  Trim(JoinLines(OptimizeLines(SplitLines(cleaned), <<>>)))

\* generateAnswerFromThinking: the first Chinese sentence of the reasoning,
\* which runs from the first Chinese character to the last Chinese full stop
\* before the next ASCII full stop; the tokens hold no quotation mark and none
\* of the topic words and conclusion phrases of lines 100-153, which leaves
\* the default reply
GenerateAnswerFromThinking(thinkingContent) ==
  LET cleanContent == Trim(RemoveEnglishOpeners(RemoveHeadings(thinkingContent)))
      zh == {i \in DOMAIN cleanContent : cleanContent[i] \in Chinese}
  IN  IF zh # {}
      THEN LET first == Min(zh)
               last == Max({k \in zh : k >= first /\
                              \A m \in first..k : cleanContent[m] # "en"})
           IN  SubSeq(cleanContent, first, last)
      ELSE <<FriendlyReply>>

\* ---- the inputs
\* the largest number of parts of a candidate
MaxParts == 2
\* the largest count of tokens the backend reports
MaxTokenCount == 2
\* the largest number of lines the backend streams
MaxLines == 3

Undefined == "undefined"
EnableThinkingArgs == {"true", "false", Undefined}
Models == {"gemini-1.5-flash", "gemini-2.5-flash"}
FinishReasons ==
  {Undefined, "STOP", "MAX_TOKENS", "SAFETY", "RECITATION", "OTHER",
   "SPII", "MALFORMED_FUNCTION_CALL"}

AnswerTexts ==
  {<<>>, <<"sp">>, <<"zhA">>, <<"em">>, <<"hd", "nl", "en", "nl", "zhA">>}
ThoughtTexts == {<<"sp">>, <<"zhT">>, <<"hd", "nl", "en">>}

\* GeminiPart: a text part, a text part marked as thought, or a function call
Parts ==
  {[text |-> t, thought |-> FALSE, functionCall |-> FALSE] : t \in AnswerTexts}
  \cup
  {[text |-> t, thought |-> TRUE, functionCall |-> FALSE] : t \in ThoughtTexts}
  \cup
  {[text |-> <<>>, thought |-> FALSE, functionCall |-> TRUE]}

PartLists == UNION {[1..n -> Parts] : n \in 0..MaxParts}

\* GeminiCandidate; a candidate without content is one without parts
Candidates == [parts : PartLists, finishReason : FinishReasons]

\* the candidates that follow the first one of a response
MoreCandidates ==
  {[parts |-> <<p>>, finishReason |-> "STOP"] :
     p \in {q \in Parts : q.text \in {<<>>, <<"zhA">>}}}

\* an optional count of tokens: absent, or a number up to MaxTokenCount
TokenCounts == {<<>>} \cup {<<n>> : n \in 0..MaxTokenCount}

\* GeminiUsageMetadata; a response without usageMetadata is one whose
\* counts are all absent
UsageMetadata ==
  [promptTokenCount : TokenCounts, candidatesTokenCount : TokenCounts,
   totalTokenCount : TokenCounts, thoughtsTokenCount : TokenCounts]
NoUsage ==
  [promptTokenCount |-> <<>>, candidatesTokenCount |-> <<>>,
   totalTokenCount |-> <<>>, thoughtsTokenCount |-> <<>>]

\* GeminiResponse: without candidates, with an empty list, with one
\* candidate or with two
Responses ==
  {[hasCandidates |-> FALSE, candidates |-> <<>>, usageMetadata |-> NoUsage],
   [hasCandidates |-> TRUE, candidates |-> <<>>, usageMetadata |-> NoUsage]}
  \cup {[hasCandidates |-> TRUE, candidates |-> <<c>>,
         usageMetadata |-> NoUsage] : c \in Candidates}
  \cup {[hasCandidates |-> TRUE, candidates |-> <<c, d>>,
         usageMetadata |-> NoUsage] :
          c \in MoreCandidates, d \in MoreCandidates}

\* the responses with every usageMetadata
UsageResponses ==
  {[hasCandidates |-> TRUE, candidates |-> <<c>>, usageMetadata |-> u] :
     c \in {d \in MoreCandidates : d.parts[1].text # <<>>},
     u \in UsageMetadata}

\* ---- transformCandidateToChoice
RECURSIVE ConcatTexts(_)
ConcatTexts(parts) ==
  IF parts = <<>> THEN <<>> ELSE Head(parts).text \o ConcatTexts(Tail(parts))

\* the loop over the parts: a part with text is answer or thought, a part
\* without text that carries a function call is a tool call
CombinedContent(parts) ==
  ConcatTexts(SelectSeq(parts, LAMBDA p : p.text # <<>> /\ ~p.thought))
ThinkingContent(parts) ==
  ConcatTexts(SelectSeq(parts, LAMBDA p : p.text # <<>> /\ p.thought))
ToolCalls(parts) ==
  LET calls == SelectSeq(parts, LAMBDA p : p.text = <<>> /\ p.functionCall)
  IN  [i \in DOMAIN calls |-> [type |-> "function"]]

\* String.includes("**"): in the heading, and where two emphasised blanks
\* meet
HasStars(s) ==
  \/ "hd" \in Tokens(s)
  \/ \E i \in 1..(Len(s) - 1) : s[i] = "em" /\ s[i + 1] = "em"

HasInlineThinking(combinedContent) ==
  HasStars(combinedContent) /\ "en" \in Tokens(combinedContent)

\* the loop that separates the lines of inline reasoning from the answer
RECURSIVE SeparateLines(_, _, _, _)
SeparateLines(lines, inThinkingMode, thinkingLines, answerLines) ==
  IF lines = <<>>
  THEN [thinkingLines |-> thinkingLines, answerLines |-> answerLines]
  ELSE LET line == Head(lines)
           trimmedLine == Trim(line)
           isThinkingLine ==
             \/ HasStars(trimmedLine)
             \/ trimmedLine # <<>> /\ trimmedLine[1] = "en"
           isChineseAnswer ==
             Tokens(trimmedLine) \cap Chinese # {} /\ ~isThinkingLine
           mode == inThinkingMode /\ ~isChineseAnswer
       IN  IF mode /\ isThinkingLine
           THEN SeparateLines(Tail(lines), mode,
                              Append(thinkingLines, line), answerLines)
           ELSE IF ~mode \/ isChineseAnswer
           THEN SeparateLines(Tail(lines), mode,
                              thinkingLines, Append(answerLines, line))
           ELSE SeparateLines(Tail(lines), mode, thinkingLines, answerLines)

\* `<think>\n${thinking}\n</think>\n\n${answer}`
ThinkBlock(thinking, answer) ==
  <<ThinkOpen, "nl">> \o thinking \o <<"nl", ThinkClose, "nl", "nl">> \o answer

\* lines 238-320: the content before the empty cases are handled
BaseContent(combinedContent, thinkingContent, enableThinking) ==
  IF Trim(thinkingContent) # <<>>
  THEN IF enableThinking
       THEN ThinkBlock(thinkingContent, combinedContent)
       ELSE combinedContent
  ELSE IF HasInlineThinking(combinedContent)
  THEN LET sep == SeparateLines(SplitLines(combinedContent), TRUE, <<>>, <<>>)
           extractedThinking == Trim(JoinLines(sep.thinkingLines))
           extractedAnswer == Trim(JoinLines(sep.answerLines))
       IN  IF enableThinking /\ extractedThinking # <<>>
           THEN ThinkBlock(extractedThinking, extractedAnswer)
           ELSE IF extractedAnswer # <<>> THEN extractedAnswer
           ELSE combinedContent
  ELSE IF ~enableThinking THEN FilterThinkingContent(combinedContent)
  ELSE combinedContent

\* lines 322-348: an empty final content is replaced
FilledContent(finalContent, thinkingContent, enableThinking) ==
  IF Trim(finalContent) # <<>> THEN finalContent
  ELSE IF Trim(thinkingContent) # <<>>
  THEN LET generatedAnswer == GenerateAnswerFromThinking(thinkingContent)
       IN  IF enableThinking
           THEN ThinkBlock(thinkingContent, generatedAnswer)
           ELSE generatedAnswer
  ELSE <<DefaultApology>>

\* lines 350-367: no token holds a brace or a bracket, so no content looks
\* like JSON
MarkdownCleaned(finalContent, enableThinking) ==
  IF ~enableThinking /\ finalContent # <<>>
     /\ ThinkOpen \notin Tokens(finalContent)
  THEN CleanMarkdownFormatting(finalContent)
  ELSE finalContent

\* lines 377-390
ErrorMessage(finishReason) ==
  CASE finishReason = "SAFETY" -> SafetyApology
    [] finishReason = "RECITATION" -> RecitationApology
    [] finishReason = "MAX_TOKENS" -> MaxTokensApology
    [] finishReason = "OTHER" -> OtherApology
    [] OTHER -> GenericApology

\* lines 369-399
EnsuredContent(finalContent, toolCalls, thinkingContent, finishReason, enableThinking) ==
  IF toolCalls = <<>> /\ Trim(finalContent) = <<>>
  THEN IF enableThinking /\ thinkingContent # <<>>
       THEN <<ThinkOpen, "nl", ProblemNote, finishReason, "nl", ThinkClose,
              "nl", "nl", ErrorMessage(finishReason)>>
       ELSE <<ErrorMessage(finishReason)>>
  ELSE finalContent

\* mapFinishReasonToOpenAI
MapFinishReasonToOpenAI(geminiReason) ==
  IF geminiReason = Undefined THEN "stop"
  ELSE CASE geminiReason = "STOP" -> "stop"
         [] geminiReason = "MAX_TOKENS" -> "length"
         [] geminiReason \in {"SAFETY", "RECITATION", "BLOCKLIST",
                              "PROHIBITED_CONTENT", "SPII"} -> "content_filter"
         [] geminiReason = "MALFORMED_FUNCTION_CALL" -> "tool_calls"
         [] OTHER -> "stop"

\* transformCandidateToChoice; a message without tool calls has no
\* tool_calls field, here an empty one
TransformCandidateToChoice(candidate, index, enableThinking) ==
  LET combinedContent == CombinedContent(candidate.parts)
      thinkingContent == ThinkingContent(candidate.parts)
      toolCalls == ToolCalls(candidate.parts)
      base == BaseContent(combinedContent, thinkingContent, enableThinking)
      filled == FilledContent(base, thinkingContent, enableThinking)
      cleaned == MarkdownCleaned(filled, enableThinking)
      finalContent == EnsuredContent(cleaned, toolCalls, thinkingContent,
                                     candidate.finishReason, enableThinking)
  IN  [index |-> index,
       message |-> [role |-> "assistant",
                    content |-> IF toolCalls # <<>> THEN <<>> ELSE finalContent,
                    tool_calls |-> toolCalls],
       finish_reason |-> MapFinishReasonToOpenAI(candidate.finishReason)]

\* openaiRequest.enable_thinking !== false
EnableThinking(openaiRequest) == openaiRequest.enable_thinking # "false"

\* count || 0
OrZero(count) == IF count = <<>> THEN 0 ELSE count[1]

\* a usage whose completion_tokens counts the reasoning tokens as well
Usage_thoughtsInCompletion(usageMetadata) ==
  LET prompt_tokens == OrZero(usageMetadata.promptTokenCount)
      thoughts == OrZero(usageMetadata.thoughtsTokenCount)
      completion_tokens == OrZero(usageMetadata.candidatesTokenCount) + thoughts
  IN  [prompt_tokens |-> prompt_tokens,
       completion_tokens |-> completion_tokens,
       total_tokens |->
         IF thoughts # 0
         THEN prompt_tokens + completion_tokens
         ELSE OrZero(usageMetadata.totalTokenCount)]

\* lines 186-198: the usage of the response
Usage(usageMetadata) ==
  LET prompt_tokens == OrZero(usageMetadata.promptTokenCount)
      completion_tokens == OrZero(usageMetadata.candidatesTokenCount)
      thoughts == OrZero(usageMetadata.thoughtsTokenCount)
  IN  [prompt_tokens |-> prompt_tokens,
       completion_tokens |-> completion_tokens,
       total_tokens |->
         IF thoughts # 0
         THEN prompt_tokens + completion_tokens + thoughts
         ELSE OrZero(usageMetadata.totalTokenCount)]

\* transformGeminiResponseToOpenAI
TransformGeminiResponseToOpenAI(geminiResponse, openaiRequest) ==
  LET enableThinking == EnableThinking(openaiRequest)
      candidates == geminiResponse.candidates
  IN  [object |-> "chat.completion",
       model |-> openaiRequest.model,
       usage |-> Usage(geminiResponse.usageMetadata),
       choices |->
         IF geminiResponse.hasCandidates /\ Len(candidates) > 0
         THEN [i \in DOMAIN candidates |->
                 TransformCandidateToChoice(candidates[i], i - 1,
                                            enableThinking)]
         ELSE <<[index |-> 0,
                 message |-> [role |-> "assistant", content |-> <<>>,
                              tool_calls |-> <<>>],
                 finish_reason |-> "stop"]>>]

\* ---- transformOpenAIRequestToGemini
\* the largest number of messages of a request
MaxMessages == 2

\* The content of a message is a string: the empty one, a plain text, a text
\* that holds one of the keywords asking for JSON, or the result of a tool.
PlainText == "hi"
JsonText == "answer in json format"
ToolResult == "sunny"
FunctionNames == {"get_weather", "get_time"}

\* OpenAIMessage: tool_calls holds the function names of the calls of an
\* assistant message, tool_call_id is "" when the field is absent
SystemMessages ==
  {[role |-> "system", content |-> PlainText, tool_calls |-> <<>>,
    tool_call_id |-> ""]}
UserMessages ==
  {[role |-> "user", content |-> c, tool_calls |-> <<>>, tool_call_id |-> ""] :
     c \in {PlainText, JsonText}}
AssistantMessages ==
  {[role |-> "assistant", content |-> "", tool_calls |-> <<f>>,
    tool_call_id |-> ""] : f \in FunctionNames}
ToolMessages ==
  {[role |-> "tool", content |-> ToolResult, tool_calls |-> <<>>,
    tool_call_id |-> id] : id \in {"", "call_1"}}
Messages ==
  SystemMessages \cup UserMessages \cup AssistantMessages \cup ToolMessages
MessageLists == UNION {[1..n -> Messages] : n \in 1..MaxMessages}

\* an optional max_tokens: absent, or the number the client supplies
MaxTokensArgs == {<<>>, <<100>>}
\* response_format: absent, or { type: "json_object" }
ResponseFormats == {Undefined, "json_object"}

\* OpenAIRequest
OpenAIRequests ==
  [model : Models, enable_thinking : EnableThinkingArgs,
   max_tokens : MaxTokensArgs, response_format : ResponseFormats,
   messages : MessageLists]

\* the requests of one user message that set neither max_tokens nor
\* response_format
PlainRequests ==
  {r \in [model : Models, enable_thinking : EnableThinkingArgs,
          max_tokens : {<<>>}, response_format : {Undefined},
          messages : {<<m>> : m \in UserMessages}] :
     r.messages[1].content = PlainText}

MapRoleToGemini(role) == IF role = "assistant" THEN "model" ELSE "user"

\* the parts one message becomes: its text if it is not blank, a
\* functionCall per tool call, and the functionResponse of a tool message
\* that has a tool_call_id and a content
TextPart(msg) ==
  IF msg.content # ""
  THEN <<[kind |-> "text", name |-> "", content |-> msg.content]>>
  ELSE <<>>
FunctionCallParts(msg) ==
  [i \in DOMAIN msg.tool_calls |->
     [kind |-> "functionCall", name |-> msg.tool_calls[i], content |-> ""]]
FunctionResponsePart(msg) ==
  IF msg.role = "tool" /\ msg.tool_call_id # "" /\ msg.content # ""
  THEN <<[kind |-> "functionResponse", name |-> "unknown_function",
          content |-> msg.content]>>
  ELSE <<>>
MessageParts(msg) ==
  TextPart(msg) \o FunctionCallParts(msg) \o FunctionResponsePart(msg)

\* the loop over the messages: a system message gives no content, a message
\* without parts neither
RECURSIVE MessagesToContents(_)
MessagesToContents(messages) ==
  IF messages = <<>> THEN <<>>
  ELSE LET msg == Head(messages)
           parts == MessageParts(msg)
       IN  IF msg.role = "system" \/ parts = <<>>
           THEN MessagesToContents(Tail(messages))
           ELSE <<[role |-> MapRoleToGemini(msg.role), parts |-> parts]>>
                \o MessagesToContents(Tail(messages))

IsJsonContentRequest(messages) ==
  \E i \in DOMAIN messages : messages[i].content = JsonText
IsJsonRequest(openaiRequest) ==
  \/ openaiRequest.response_format = "json_object"
  \/ IsJsonContentRequest(openaiRequest.messages)

\* openaiRequest.model.includes("2.5")
IsThinkingModel(model) == model = "gemini-2.5-flash"

\* the largest maxOutputTokens of the backend model
ModelMaxTokens(model) == IF IsThinkingModel(model) THEN 65536 ELSE 8192

FinalMaxTokens(openaiRequest) ==
  IF openaiRequest.max_tokens # <<>>
  THEN IF IsJsonRequest(openaiRequest)
       THEN ModelMaxTokens(openaiRequest.model)
       ELSE openaiRequest.max_tokens[1]
  ELSE ModelMaxTokens(openaiRequest.model)

ThinkingConfig_budgetWhenEnabled(openaiRequest) ==
  IF ~IsThinkingModel(openaiRequest.model) THEN [present |-> FALSE]
  ELSE IF openaiRequest.enable_thinking = "true"
  THEN [present |-> TRUE, includeThoughts |-> TRUE, thinkingBudget |-> 0]
  ELSE [present |-> TRUE, includeThoughts |-> FALSE, thinkingBudget |-> 0]

ThinkingConfig(openaiRequest) ==
  IF ~IsThinkingModel(openaiRequest.model) THEN [present |-> FALSE]
  ELSE IF openaiRequest.enable_thinking = "true"
  THEN [present |-> TRUE, includeThoughts |-> TRUE]
  ELSE [present |-> TRUE, includeThoughts |-> FALSE, thinkingBudget |-> 0]

TransformOpenAIRequestToGemini(openaiRequest) ==
  [contents |-> MessagesToContents(openaiRequest.messages),
   maxOutputTokens |-> FinalMaxTokens(openaiRequest),
   thinkingConfig |-> ThinkingConfig(openaiRequest)]

\* ---- one exchange after the other
NoRequest ==
  [model |-> "none", enable_thinking |-> Undefined, max_tokens |-> <<>>,
   response_format |-> Undefined, messages |-> <<>>]
NoGeminiRequest ==
  [contents |-> <<>>, maxOutputTokens |-> 0,
   thinkingConfig |-> [present |-> FALSE]]
NoResponse ==
  [hasCandidates |-> FALSE, candidates |-> <<>>, usageMetadata |-> NoUsage]
NoChoices ==
  [object |-> "none", model |-> "none", usage |-> Usage(NoUsage),
   choices |-> <<>>]

RTInit ==
  rt = [pc |-> "idle", openaiRequest |-> NoRequest,
        geminiRequest |-> NoGeminiRequest, geminiResponse |-> NoResponse,
        result |-> NoChoices]

\* the client's request is transformed and sent
TransformRequest(openaiRequest) ==
  /\ rt.pc \in {"idle", "done"}
  /\ rt' = [pc |-> "sent", openaiRequest |-> openaiRequest,
            geminiRequest |-> TransformOpenAIRequestToGemini(openaiRequest),
            geminiResponse |-> NoResponse, result |-> NoChoices]
  /\ UNCHANGED notrt

\* the backend answers and its answer is transformed for the client
BackendResponds(geminiResponse) ==
  /\ rt.pc = "sent"
  /\ rt' = [rt EXCEPT !.pc = "done", !.geminiResponse = geminiResponse,
              !.result = TransformGeminiResponseToOpenAI(geminiResponse,
                                                         rt.openaiRequest)]
  /\ UNCHANGED notrt

\* ======================================================================
\* Part 8: createGeminiToOpenAISSEStream, the reassembler of the backend's
\* stream
\* ======================================================================
\* The backend's stream is a sequence of bytes, each token standing for a
\* fixed run of bytes:
\*   "nl"  a line feed         "D"  data: (with its blank)
\*   "{" and "}"  the braces of a JSON object
\*   "X"   [DONE]
\*   "b1", "b2"  the two bytes of one character, which decode to "t"
\*   "e", "f", "tt", "ab", "th"  the bodies of the other JSON objects
\* A JSON text is a brace, a body and a brace.
Bodies == {"t", "e", "f", "tt", "ab", "th"}

\* a part of a streamed candidate: its text and the name of its function
\* call, each or both absent
SPart(text, functionCall) ==
  [text |-> text, functionCall |-> functionCall, thought |-> FALSE]

\* a text part the backend marks thought = true
ThoughtPart(text) == [SPart(text, <<>>) EXCEPT !.thought = TRUE]

\* JSON.parse of a well-formed body: the chunk of the backend
\*   "t"   one candidate with text
\*   "e"   one candidate without parts that reports STOP
\*   "f"   one candidate with one fragment of the call of function "f"
\*   "tt"  two candidates with text
\*   "ab"  one candidate with two text parts
\*   "th"  one candidate with one text part marked thought
GeminiChunk(body) ==
  CASE body = "t" ->
         <<[parts |-> <<SPart(<<"a">>, <<>>)>>, finishReason |-> Undefined]>>
    [] body = "e" -> <<[parts |-> <<>>, finishReason |-> "STOP"]>>
    [] body = "f" ->
         <<[parts |-> <<SPart(<<>>, <<"f">>)>>, finishReason |-> Undefined]>>
    [] body = "ab" ->
         <<[parts |-> <<SPart(<<"a">>, <<>>), SPart(<<"b">>, <<>>)>>,
            finishReason |-> Undefined]>>
    [] body = "th" ->
         <<[parts |-> <<ThoughtPart(<<"h">>)>>, finishReason |-> Undefined]>>
    [] OTHER ->
         <<[parts |-> <<SPart(<<"a">>, <<>>)>>, finishReason |-> Undefined],
           [parts |-> <<SPart(<<"b">>, <<>>)>>, finishReason |-> Undefined]>>

\* JSON.parse succeeds
WellFormed(jsonStr) ==
  Len(jsonStr) = 3 /\ jsonStr[1] = "{" /\ jsonStr[2] \in Bodies
  /\ jsonStr[3] = "}"

\* the terminal marker data: [DONE], and an event that carries a chunk
DoneEvent ==
  [done |-> TRUE, index |-> 0, role |-> FALSE, content |-> <<>>,
   tool_calls |-> <<>>, finish_reason |-> "null"]

\* mapFinishReasonToOpenAI of the stream: no reason gives null
MapStreamFinishReason(geminiReason) ==
  IF geminiReason = Undefined THEN "null"
  ELSE MapFinishReasonToOpenAI(geminiReason)

\* the loop over the parts of a candidate: the last text is the content,
\* every function call takes the index currentToolCalls.size
RECURSIVE PartsToDelta(_, _, _)
PartsToDelta(parts, delta, currentToolCalls) ==
  IF parts = <<>>
  THEN [delta |-> delta, currentToolCalls |-> currentToolCalls]
  ELSE LET part == Head(parts)
           d1 == IF part.text # <<>>
                 THEN [delta EXCEPT !.content = part.text]
                 ELSE delta
           toolCallDelta == [index |-> Len(currentToolCalls),
                             name |-> part.functionCall]
       IN  IF part.functionCall # <<>>
           THEN PartsToDelta(Tail(parts),
                  [d1 EXCEPT !.tool_calls = Append(@, toolCallDelta)],
                  Append(currentToolCalls, toolCallDelta))
           ELSE PartsToDelta(Tail(parts), d1, currentToolCalls)

\* transformGeminiChunkToOpenAI: the loop over the candidates from
\* candidateIndex on
RECURSIVE CandidatesToChunks(_, _, _, _, _)
CandidatesToChunks(candidates, candidateIndex, roleSent, currentToolCalls, chunks) ==
  IF candidateIndex >= Len(candidates)
  THEN [chunks |-> chunks, currentToolCalls |-> currentToolCalls]
  ELSE LET candidate == candidates[candidateIndex + 1]
           role == /\ ~roleSent
                   /\ \E i \in DOMAIN candidate.parts :
                        \/ candidate.parts[i].text # <<>>
                        \/ candidate.parts[i].functionCall # <<>>
           r == PartsToDelta(candidate.parts,
                  [DoneEvent EXCEPT !.done = FALSE, !.index = candidateIndex,
                     !.role = role,
                     !.finish_reason =
                        MapStreamFinishReason(candidate.finishReason)],
                  currentToolCalls)
       IN  CandidatesToChunks(candidates, candidateIndex + 1, roleSent,
                              r.currentToolCalls, Append(chunks, r.delta))

TransformGeminiChunkToOpenAI(geminiChunk, roleSent, currentToolCalls) ==
  CandidatesToChunks(geminiChunk, 0, roleSent, currentToolCalls, <<>>)

\* the reassembler as created: nothing buffered, no role sent
NewStream ==
  [decoder |-> <<>>, buffer |-> <<>>, roleSent |-> FALSE,
   currentToolCalls |-> <<>>, out |-> <<>>, errored |-> FALSE]

\* TextDecoder.decode of a chunk that ends inside a character, without the
\* stream option: the character is replaced
RECURSIVE Decode_noStream(_, _)
Decode_noStream(pending, chunk) ==
  IF chunk = <<>> THEN [chars |-> <<>>, pending |-> <<>>]
  ELSE IF Head(chunk) = "b1" /\ Len(chunk) >= 2 /\ chunk[2] = "b2"
  THEN LET rest == Decode_noStream(<<>>, Tail(Tail(chunk)))
       IN  [rest EXCEPT !.chars = <<"t">> \o @]
  ELSE LET rest == Decode_noStream(<<>>, Tail(chunk))
       IN  [rest EXCEPT !.chars =
              <<IF Head(chunk) \in {"b1", "b2"} THEN "FFFD"
                ELSE Head(chunk)>> \o @]

\* TextDecoder.decode(chunk, { stream: true }): the first byte of a
\* character waits in the decoder for the second
RECURSIVE Decode(_, _)
Decode(pending, chunk) ==
  IF chunk = <<>> THEN [chars |-> <<>>, pending |-> pending]
  ELSE IF pending = <<"b1">>
  THEN IF Head(chunk) = "b2"
       THEN LET rest == Decode(<<>>, Tail(chunk))
            IN  [rest EXCEPT !.chars = <<"t">> \o @]
       ELSE LET rest == Decode(<<>>, chunk)
            IN  [rest EXCEPT !.chars = <<"FFFD">> \o @]
  ELSE IF Head(chunk) = "b1" THEN Decode(<<"b1">>, Tail(chunk))
  ELSE LET rest == Decode(<<>>, Tail(chunk))
       IN  [rest EXCEPT !.chars =
              <<IF Head(chunk) = "b2" THEN "FFFD" ELSE Head(chunk)>> \o @]

\* a parse error that errors the stream
OnParseError_abort(st) == [st EXCEPT !.errored = TRUE]

\* the catch blocks of lines 411-413 and 436-438: the error is logged
OnParseError(st) == st

\* lines 393-413 and 418-438: a JSON text is parsed, transformed and
\* enqueued
EnqueueJson(st, jsonStr, setRole) ==
  IF ~WellFormed(jsonStr) THEN OnParseError(st)
  ELSE LET r == TransformGeminiChunkToOpenAI(GeminiChunk(jsonStr[2]),
                                             st.roleSent, st.currentToolCalls)
       IN  [st EXCEPT !.roleSent = @ \/ (setRole /\ r.chunks # <<>>),
                      !.currentToolCalls = r.currentToolCalls,
                      !.out = @ \o r.chunks]

\* the body of the loop over the complete lines
ProcessLine(st, line) ==
  LET trimmedLine == Trim(line)
  IN  IF st.errored \/ trimmedLine = <<>> THEN st
      ELSE IF Head(trimmedLine) = "D"
      THEN IF Tail(trimmedLine) = <<"X">>
           THEN [st EXCEPT !.out = Append(@, DoneEvent)]
           ELSE EnqueueJson(st, Tail(trimmedLine), TRUE)
      ELSE IF Head(trimmedLine) = "{" /\ trimmedLine[Len(trimmedLine)] = "}"
      THEN EnqueueJson(st, trimmedLine, TRUE)
      ELSE st

RECURSIVE ProcessLines(_, _)
ProcessLines(st, lines) ==
  IF lines = <<>> THEN st
  ELSE ProcessLines(ProcessLine(st, Head(lines)), Tail(lines))

\* transform(chunk, controller)
TransformChunk(st, chunk) ==
  IF st.errored THEN st
  ELSE LET d == Decode(st.decoder, chunk)
           lines == SplitLines(st.buffer \o d.chars)
       IN  ProcessLines([st EXCEPT !.decoder = d.pending,
                                   !.buffer = lines[Len(lines)]],
                        SubSeq(lines, 1, Len(lines) - 1))

\* flush(controller); an errored stream is not flushed.  Every JSON text
\* that parses is longer than two characters.
FlushStream(st) ==
  IF st.errored THEN st
  ELSE LET trimmedBuffer == Trim(st.buffer)
           parsed == IF trimmedBuffer # <<>> /\ trimmedBuffer # <<"]">>
                        /\ trimmedBuffer # <<"[">>
                     THEN EnqueueJson(st, trimmedBuffer, FALSE)
                     ELSE st
       IN  [parsed EXCEPT !.out = Append(@, DoneEvent)]

\* ---- the backend and the stream
\* the lines the backend writes: events, the terminal signal, an event whose
\* JSON is cut short; the character of "t" is written as its two bytes
Encode(body) == IF body = "t" THEN <<"b1", "b2">> ELSE <<body>>
EventLine(body) == <<"D", "{">> \o Encode(body) \o <<"}">>
GoodLines == {EventLine(body) : body \in {"t", "e", "f"}}
BadLines == {<<"D", "{", "b1", "b2">>}
StreamLines == GoodLines \cup BadLines \cup {<<"D", "X">>}
\* what the backend may leave without a line feed when it closes
Tails == {<<>>, <<"{", "tt", "}">>, EventLine("e")}
\* lines whose candidate has one text part, two text parts, or a text part
\* marked thought
PartLines == {EventLine(body) : body \in {"t", "ab", "th"}}

RECURSIVE Flatten(_)
Flatten(lines) ==
  IF lines = <<>> THEN <<>>
  ELSE Head(lines) \o <<"nl">> \o Flatten(Tail(lines))

\* sent are the lines the backend has written and tail its unfinished last
\* line, wire the bytes not yet delivered, chunks whether no, one or more
\* chunks were delivered, st the reassembler; enableThinking is the
\* exchange's openaiRequest.enable_thinking !== false, which the handler
\* holds and does not pass to the reassembler
Exchange(enableThinking) ==
  [pc |-> "open", sent |-> <<>>, tail |-> <<>>, wire |-> <<>>,
   chunks |-> 0, st |-> NewStream, enableThinking |-> enableThinking]

SSEInit == sse = Exchange(TRUE)

\* the backend writes a line
UpstreamLine(line) ==
  /\ sse.pc = "open"
  /\ Len(sse.sent) < MaxLines
  /\ sse' = [sse EXCEPT !.sent = Append(@, line),
                        !.wire = @ \o line \o <<"nl">>]
  /\ UNCHANGED notsse

\* the backend closes its stream, possibly after an unfinished line
UpstreamCloses(tail) ==
  /\ sse.pc = "open"
  /\ sse' = [sse EXCEPT !.pc = "ended", !.tail = tail, !.wire = @ \o tail]
  /\ UNCHANGED notsse

\* the next n bytes arrive as one chunk
Transform(n) ==
  /\ sse.pc \in {"open", "ended"}
  /\ n \in 1..Len(sse.wire)
  /\ sse' = [sse EXCEPT !.wire = SubSeq(@, n + 1, Len(@)),
                        !.chunks = IF @ = 0 THEN 1 ELSE 2,
                        !.st = TransformChunk(@, SubSeq(sse.wire, 1, n))]
  /\ UNCHANGED notsse

\* the input has closed and every byte was transformed
Flush ==
  /\ sse.pc = "ended"
  /\ sse.wire = <<>>
  /\ sse' = [sse EXCEPT !.pc = "closed", !.st = FlushStream(@)]
  /\ UNCHANGED notsse

\* the other parts at rest
AuxInit ==
  TmInit(DefaultRequestTimeout) /\ ICInit /\ CPInit /\ RTInit /\ SSEInit

\* ======================================================================
\* Specifications
\* ======================================================================

\* ---- SpecCM: scheduling with caller-chosen ids and priorities, no keys
SubmitCM ==
  /\ Cardinality(DOMAIN call) < MaxCalls
  /\ \E id \in RequestIds, p \in Priorities : ExecuteRequest(id, p, NoKey)

InitCM == CMInit(2, 2) /\ MRInit(3, 1) /\ SrvInit /\ AuxInit

NextCM ==
  \/ SubmitCM
  \/ ProcessQueueStep
  \/ Settles
  \/ Resumes
  \/ Shutdown
  \/ ShutdownResume

SpecCM == InitCM /\ [][NextCM]_vars

\* ---- SpecCMPrio: one slot, so that entries wait and overtake each other
SubmitPrio ==
  /\ Cardinality(DOMAIN call) < MaxPrioCalls
  /\ \E p \in Priorities : ExecuteRequest("a", p, NoKey)

InitCMPrio == CMInit(1, 2) /\ MRInit(3, 1) /\ SrvInit /\ AuxInit

NextCMPrio ==
  \/ SubmitPrio
  \/ ProcessQueueStep
  \/ Settles
  \/ Resumes
  \/ Shutdown
  \/ ShutdownResume

SpecCMPrio == InitCMPrio /\ [][NextCMPrio]_vars

\* ---- FairSpecCMLive: one slot and callers that keep submitting; the
\* scheduling is made explicit: the loop runs on, every started executor
\* settles, and every settled executor's continuation runs
\* in this specification every executor fulfils
SettlesOk == \E r \in DOMAIN call : ExecutorSettles(r, TRUE)

\* every call passes an id of its own
SubmitLive ==
  /\ Cardinality(DOMAIN call) < MaxLiveCalls
  /\ \E p \in Priorities : ExecuteRequest(NextCallNo, p, NoKey)

Forgets == \E r \in DOMAIN call : Forget(r)

NextCMLive ==
  \/ SubmitLive
  \/ ProcessQueueStep
  \/ SettlesOk
  \/ Resumes
  \/ Forgets

FairCM ==
  /\ WF_vars(ProcessQueueStep)
  /\ \A r \in 1..MaxLiveCalls :
       WF_vars(ExecutorSettles(r, TRUE))
  /\ \A r \in 1..MaxLiveCalls : WF_vars(ExecuteRequestAsyncResume(r))

FairSpecCMLive == InitCMPrio /\ [][NextCMLive]_vars /\ FairCM

\* ---- SpecCMKeys: admission with API keys, rate limits and the clock;
\* every executor fulfils
SubmitKeys ==
  /\ Cardinality(DOMAIN call) < MaxKeyCalls
  /\ \E k \in ApiKeys \cup {NoKey} : ExecuteRequest("a", 0, k)

RecordsUsage ==
  \E k \in ApiKeys, m \in MaxRequestsArgs : RecordApiUsage(k, m)

InitCMKeys == CMInit(1, 1) /\ MRInit(3, 1) /\ SrvInit /\ AuxInit

NextCMKeys ==
  \/ SubmitKeys
  \/ ProcessQueueStep
  \/ SettlesOk
  \/ Resumes
  \/ RecordsUsage
  \/ CleanupStats
  \/ Tick

SpecCMKeys == InitCMKeys /\ [][NextCMKeys]_vars

\* ---- SpecMR: one makeRequest at a time against a scripted backend
InitMR ==
  /\ CMInit(2, 2)
  /\ SrvInit
  /\ AuxInit
  /\ \E retries \in 0..MaxCfgRetries, keys \in 0..MaxKeys : MRInit(retries, keys)

Requests == \E scr \in Scripts : MakeRequest(scr)
Fetches == \E jitter \in Jitters : FetchSettles(jitter)

NextMR ==
  \/ Requests
  \/ Fetches
  \/ BackoffElapses
  \/ CallerResumes

SpecMR == InitMR /\ [][NextMR]_vars

\* ---- FairSpecMR: SpecMR with its scheduling: every fetch settles (the
\* attempt's timer aborts one that does not) and every backoff timer fires
\* the backend answers 200 or 429, or the call fails or is aborted
RequestsShort ==
  \E scr \in [1..MaxKeys -> {o \in Outcomes : o.status \notin {400, 500}}] :
    MakeRequest(scr)

NextMRFair ==
  \/ RequestsShort
  \/ Fetches
  \/ BackoffElapses
  \/ CallerResumes

FairMR ==
  /\ WF_vars(Fetches)
  /\ WF_vars(BackoffElapses)

FairSpecMR == InitMR /\ [][NextMRFair]_vars /\ FairMR
\* ---- SpecServer: concurrent POST /v1/chat/completions requests
InitServer ==
  /\ CMInit(2, 2)
  /\ SrvInit
  /\ AuxInit
  /\ \E keys \in 0..1 : MRInit(3, keys)

Receives == \E h \in Handlers, authOk \in BOOLEAN : Receive(h, authOk)
Parses ==
  \E h \in Handlers, jsonOk, stream \in BOOLEAN, body \in RequestBodies :
    ParseBody(h, jsonOk, body, stream)
ModelChecks == \E h \in Handlers, known \in BOOLEAN : ModelChecked(h, known)
BackendReturns ==
  \E h \in Handlers, ok \in BOOLEAN, code \in {429, 500} :
    BackendSettles(h, ok, code)

NextServer ==
  \/ Receives
  \/ Parses
  \/ ModelChecks
  \/ BackendReturns

SpecServer == InitServer /\ [][NextServer]_vars

\* ---- SpecTimeout: the timeout of an attempt for every configuration
InitTimeout ==
  /\ CMInit(2, 2)
  /\ MRInit(3, 1)
  /\ SrvInit
  /\ \E requestTimeout \in RequestTimeouts : TmInit(requestTimeout)
  /\ ICInit
  /\ CPInit
  /\ RTInit
  /\ SSEInit

SetsTimeout ==
  \E isThinkingModel \in BOOLEAN, maxOutputTokens \in MaxOutputTokens :
    SetTimeout(isThinkingModel, maxOutputTokens)

NextTimeout == SetsTimeout

SpecTimeout == InitTimeout /\ [][NextTimeout]_vars

\* ---- SpecCache: the ImageCache under every order of its operations
InitCache == CMInit(2, 2) /\ MRInit(3, 1) /\ SrvInit /\ AuxInit

CacheSets == \E url \in Urls, image \in Images : CacheSetImage(url, image)
CacheGets == \E url \in Urls : CacheGet(url)

NextCache ==
  \/ CacheSets
  \/ CacheGets
  \/ CacheCleanup
  \/ CacheTick

SpecCache == InitCache /\ [][NextCache]_vars

\* ---- SpecPool: the ConnectionPool under every order of its operations
InitPool == CMInit(2, 2) /\ MRInit(3, 1) /\ SrvInit /\ AuxInit

\* the callers hold an endpoint at most MaxHolders times at once
GetsConnection ==
  \E url \in Endpoints : holders[url] < MaxHolders /\ GetConnection(url)
ReleasesConnection == \E url \in Endpoints : ReleaseConnection(url)

NextPool ==
  \/ GetsConnection
  \/ ReleasesConnection
  \/ CleanupConnections
  \/ PoolTick

SpecPool == InitPool /\ [][NextPool]_vars

\* ---- SpecTransform: exchanges with every request and every response
InitTransform == CMInit(2, 2) /\ MRInit(3, 1) /\ SrvInit /\ AuxInit

TransformsRequest ==
  \E openaiRequest \in PlainRequests : TransformRequest(openaiRequest)
BackendAnswers == \E geminiResponse \in Responses : BackendResponds(geminiResponse)

NextTransform ==
  \/ TransformsRequest
  \/ BackendAnswers

SpecTransform == InitTransform /\ [][NextTransform]_vars

\* ---- SpecUsage: exchanges whose responses report every usage
BackendAnswersUsage ==
  \E geminiResponse \in UsageResponses : BackendResponds(geminiResponse)

NextUsage ==
  \/ TransformsRequest
  \/ BackendAnswersUsage

SpecUsage == InitTransform /\ [][NextUsage]_vars

\* ---- SpecRequest: one exchange for every request a client can send
InitRequest ==
  /\ CMInit(2, 2)
  /\ MRInit(3, 1)
  /\ SrvInit
  /\ TmInit(DefaultRequestTimeout)
  /\ ICInit
  /\ CPInit
  /\ \E openaiRequest \in OpenAIRequests :
       rt = [pc |-> "idle", openaiRequest |-> openaiRequest,
             geminiRequest |-> NoGeminiRequest,
             geminiResponse |-> NoResponse, result |-> NoChoices]
  /\ SSEInit

TransformsPendingRequest ==
  /\ rt.pc = "idle"
  /\ TransformRequest(rt.openaiRequest)
BackendAnswersText ==
  \E c \in MoreCandidates :
    BackendResponds([hasCandidates |-> TRUE, candidates |-> <<c>>,
                     usageMetadata |-> NoUsage])

NextRequest ==
  \/ TransformsPendingRequest
  \/ BackendAnswersText

SpecRequest == InitRequest /\ [][NextRequest]_vars

\* ---- SpecStream: every stream of the backend under every chunking
UpstreamWrites == \E line \in StreamLines : UpstreamLine(line)
UpstreamEnds == \E tail \in Tails : UpstreamCloses(tail)
Transforms == \E n \in 1..Len(sse.wire) : Transform(n)

NextStream ==
  \/ UpstreamWrites
  \/ UpstreamEnds
  \/ Transforms
  \/ Flush

SpecStream == InitTransform /\ [][NextStream]_vars

\* ---- SpecStreamParts: streams of well-formed lines whose candidates
\* carry several parts or thought parts, with reasoning enabled or not
InitStreamParts ==
  /\ CMInit(2, 2) /\ MRInit(3, 1) /\ SrvInit
  /\ TmInit(DefaultRequestTimeout) /\ ICInit /\ CPInit /\ RTInit
  /\ \E enableThinking \in BOOLEAN : sse = Exchange(enableThinking)

UpstreamWritesParts == \E line \in PartLines : UpstreamLine(line)
UpstreamEndsParts == UpstreamCloses(<<>>)

NextStreamParts ==
  \/ UpstreamWritesParts
  \/ UpstreamEndsParts
  \/ Transforms
  \/ Flush

SpecStreamParts == InitStreamParts /\ [][NextStreamParts]_vars

\* ---- SpecHealth: getHealthStatus on a loaded manager
\* the capacities of the manager
ConcurrencyLimits == {2, 20, 50}
QueueSizes == {2, 20}

\* the manager after completed and failed calls have settled, and then
\* active + queued calls with ids of their own were made and none has
\* settled: entries wait only while every slot is taken
LoadedManager(c, q, active, queued, completed, failed) ==
  /\ maxConcurrentRequests = c
  /\ maxQueueSize = q
  /\ activeRequests = 1..active
  /\ requestQueue = [i \in 1..queued |->
                       [id |-> active + i, priority |-> 0, timestamp |-> 0,
                        req |-> active + i]]
  /\ processing = FALSE
  /\ stats = [totalRequests |-> completed + failed + active + queued,
              completedRequests |-> completed, failedRequests |-> failed,
              queuedRequests |-> queued,
              responseTimes |-> [i \in 1..Min({completed + failed,
                                               ResponseWindow}) |-> 0]]
  /\ apiLimits = EmptyMap
  /\ now = 0
  /\ call = [r \in 1..(active + queued) |->
               [id |-> r, priority |-> 0, apiKey |-> NoKey,
                exec |-> IF r <= active THEN "running" ELSE "none",
                promise |-> "pending", error |-> "", startTime |-> 0,
                invoked |-> IF r <= active THEN 1 ELSE 0, settled |-> 0,
                qlenAtCall |-> IF r <= c THEN 0 ELSE r - c - 1,
                activeAtCall |-> Min({r - 1, c})]]
  /\ cmPc = "idle"
  /\ shutdownPc = "none"
  /\ shutdownSnapshot = {}
  /\ health = NoHealth

InitHealth ==
  /\ \E c \in ConcurrencyLimits, q \in QueueSizes :
       \E active \in 0..c, queued \in 0..q :
         \E completed \in 0..1, failed \in 0..1 :
           /\ queued > 0 => active = c
           /\ LoadedManager(c, q, active, queued, completed, failed)
  /\ MRInit(3, 1) /\ SrvInit /\ AuxInit

NextHealth == GetHealthStatus

SpecHealth == InitHealth /\ [][NextHealth]_vars

\* ======================================================================
\* Claims
\* ======================================================================

\* C1 (SpecCM): the number of executors started and not yet settled never
\* exceeds maxConcurrentRequests, whatever ids the callers pass.
\* Violated: activeRequests is a Set of ids, so calls sharing an id
\* occupy one slot between them.
C1_RunningWithinCap ==
  Cardinality(RunningExecutors) <= maxConcurrentRequests

\* C2 as stated (SpecCMKeys): a call made while the queue holds
\* maxQueueSize entries fails with the queue-full error without being
\* enqueued, and the queue never holds more than maxQueueSize entries.
C2_Original ==
  /\ Len(requestQueue) <= maxQueueSize
  /\ \A r \in DOMAIN call :
       call[r].qlenAtCall >= maxQueueSize =>
         /\ call[r].error = "full"
         /\ call[r].promise = "rejected"
         /\ call[r].exec = "none"

\* C2 amended (SpecCMKeys): a call made while the queue holds maxQueueSize
\* entries fails at once and is never enqueued or started; its error is the
\* queue-full error unless it passed an API key that the rate-limit check
\* rejects first; the queue never holds more than maxQueueSize entries.
C2_FullQueueRejects ==
  /\ Len(requestQueue) <= maxQueueSize
  /\ \A r \in DOMAIN call :
       call[r].qlenAtCall >= maxQueueSize =>
         /\ call[r].error \in {"full", "limited"}
         /\ call[r].error = "limited" => call[r].apiKey # NoKey
         /\ call[r].promise = "rejected"
         /\ call[r].exec = "none"
         /\ \A i \in 1..Len(requestQueue) : requestQueue[i].req # r

\* C2 witness: a call was made on a full queue and got the queue-full error
C2_Witness ==
  \E r \in DOMAIN call :
    call[r].qlenAtCall >= maxQueueSize /\ call[r].error = "full"

\* C3 (FairSpecCMLive): every call admitted by executeRequest is eventually
\* resolved or rejected to its caller, given that every started executor
\* settles.
\* Violated: the queue is served in strict priority order, so an entry
\* waits for ever while calls of higher priority keep arriving.
C3_AdmittedSettles ==
  \A r \in 1..MaxLiveCalls :
    (r \in DOMAIN call /\ call[r].promise = "pending")
      ~> ~(r \in DOMAIN call /\ call[r].promise = "pending")

\* C4 (SpecCMPrio): whenever an entry is started, no entry left waiting has
\* a strictly higher priority, and none of the same priority was submitted
\* before it.
C4_PriorityThenFifo ==
  [][\A r \in DOMAIN call :
       (call[r].exec = "none" /\ call'[r].exec = "running") =>
         \A i \in 1..Len(requestQueue') :
           /\ requestQueue'[i].priority <= call[r].priority
           /\ requestQueue'[i].priority = call[r].priority
                => requestQueue'[i].req > r]_vars

\* C4 witness: an entry has been started while an entry submitted before
\* it, of lower priority, is still waiting
C4_Witness ==
  \E r \in DOMAIN call, i \in 1..Len(requestQueue) :
    /\ call[r].exec # "none"
    /\ requestQueue[i].req < r
    /\ requestQueue[i].priority < call[r].priority

\* C5 as stated (SpecCMKeys): a task submitted when queued plus active
\* requests have reached maxQueueSize is rejected with the capacity error.
C5_Original ==
  \A r \in DOMAIN call :
    call[r].qlenAtCall + call[r].activeAtCall >= maxQueueSize =>
      call[r].error = "full" /\ call[r].promise = "rejected"

\* C5 amended (SpecCMKeys): a task is rejected with the capacity error
\* exactly when the queue alone holds maxQueueSize entries at submission
\* (and the rate-limit check let it through); active requests do not count.
C5_QueueAloneDecides ==
  \A r \in DOMAIN call :
    (call[r].error = "full") <=>
      (call[r].qlenAtCall >= maxQueueSize /\ call[r].error # "limited")

\* C5 witness: a task submitted with queued plus active at maxQueueSize but
\* room in the queue was admitted
C5_Witness ==
  \E r \in DOMAIN call :
    /\ call[r].qlenAtCall + call[r].activeAtCall >= maxQueueSize
    /\ call[r].qlenAtCall < maxQueueSize
    /\ call[r].error = ""
    /\ call[r].promise = "pending"

\* C6 (SpecCM): an entry that was waiting in the queue when shutdown was
\* called is never started, and once shutdown has finished it has been
\* rejected with the shutdown error.
\* Violated: the dispatch loop keeps starting queued entries while
\* shutdown waits.
C6_ShutdownRejectsQueued ==
  \A r \in shutdownSnapshot :
    /\ call[r].exec = "none"
    /\ shutdownPc = "done" =>
         call[r].promise = "rejected" /\ call[r].error = "shutdown"

\* C7 (SpecServer): the backend generation calls in flight never exceed
\* the concurrency cap.
\* Violated: handleChatCompletions calls geminiClient directly, so no
\* backend call is a task of the manager and nothing bounds them.
C7_BackendCallsWithinCap ==
  Cardinality(BackendInFlight) <= maxConcurrentRequests

\* the failures C8 names as retried: 429, 5xx, or a network-level failure
C8_Transient(o) ==
  \/ o.kind = "neterr"
  \/ o.kind = "response" /\ (o.status = 429 \/ o.status >= 500)

\* what is surfaced to the caller for an attempt's outcome
C8_Surfaced(o) ==
  IF o.kind = "response"
  THEN [kind |-> "response", error |-> "", status |-> o.status]
  ELSE [kind |-> "throw", status |-> 0,
        error |-> IF o.kind = "abort" THEN "timeout" ELSE "network"]

\* C8 (SpecMR): an attempt is followed by another one exactly when it got
\* 429, 5xx or a network failure and attempt < min(maxRetries, poolSize) - 1;
\* the retry comes after the backoff delay and uses key index attempt + 1;
\* otherwise that attempt's response or error is what the caller gets.
C8_RetryOrSurface ==
  LET n == Len(keysUsed) IN
  /\ \A i \in 1..n : keysUsed[i] = i - 1
  /\ \A i \in 1..(n - 1) :
       C8_Transient(script[i]) /\ i - 1 < MaxRetries - 1
  /\ mrPc = "backoff" =>
       /\ C8_Transient(script[n]) /\ n - 1 < MaxRetries - 1
       /\ \E j \in Jitters : delay = Min({(2 ^ (n - 1)) * 1000 + j, 10000})
  /\ (mrPc = "done" /\ n > 0) =>
       /\ ~(C8_Transient(script[n]) /\ n - 1 < MaxRetries - 1)
       /\ mrResult = C8_Surfaced(script[n])

\* C8 witness: a request was retried after a 429 and the second attempt's
\* response was returned
C8_Witness ==
  /\ mrPc = "done"
  /\ Len(keysUsed) = 2
  /\ script[1] = [kind |-> "response", status |-> 429]
  /\ mrResult.kind = "response"

\* C9 (SpecMR): a timeout is a retryable failure: the timeout error is
\* surfaced only when no attempt remains.
\* Violated: the catch block rethrows an AbortError before the retry test.
C9_TimeoutRetried ==
  (mrPc = "done" /\ Len(keysUsed) > 0
     /\ script[Len(keysUsed)].kind = "abort") =>
    ~(Len(keysUsed) - 1 < MaxRetries - 1)

\* the backend answers 429 to the first N - 1 attempts and 200 to the N-th
C10_FailsThenSucceeds(N) ==
  /\ \A i \in 1..(N - 1) : script[i] = [kind |-> "response", status |-> 429]
  /\ script[N] = [kind |-> "response", status |-> 200]

\* C10 as stated (SpecMR): for every N in 1..poolSize, against such a
\* backend the request ends in one success after exactly N calls.
C10_Original ==
  \A N \in 1..keyCount :
    (mrPc = "done" /\ C10_FailsThenSucceeds(N)) =>
      /\ mrResult = [kind |-> "response", error |-> "", status |-> 200]
      /\ Len(keysUsed) = N

\* C10 amended (SpecMR): the same for every N in 1..min(maxRetries, poolSize).
C10_SucceedsOnNth ==
  \A N \in 1..MaxRetries :
    (mrPc = "done" /\ C10_FailsThenSucceeds(N)) =>
      /\ mrResult = [kind |-> "response", error |-> "", status |-> 200]
      /\ Len(keysUsed) = N

\* C10 witness: two 429 answers, then success on the third attempt
C10_Witness ==
  /\ mrPc = "done"
  /\ C10_FailsThenSucceeds(3)
  /\ Len(keysUsed) = 3
  /\ mrResult.status = 200

\* C11 (SpecMR): with N keys configured, N consecutive requests that each
\* succeed on their first attempt use N different keys for that attempt.
\* Violated: makeRequest asks for getApiKey(retryCount) with retryCount 0,
\* an index that is always in range, so every first attempt uses key 0 and
\* the round robin of getNextApiKey is never reached.
C11_FirstKeysDiffer ==
  Len(firstKeys) = keyCount =>
    Cardinality({firstKeys[i] : i \in 1..Len(firstKeys)}) = keyCount

\* C12 (SpecTimeout): under every configured requestTimeout, a request to a
\* 2.5 model with maxOutputTokens > 10000 gets a longer timeout than a
\* short plain request gets under the same configuration.
\* Violated: the timeouts of a 2.5 model are the fixed 120000 and 60000 ms,
\* whatever REQUEST_TIMEOUT is, while a plain request gets REQUEST_TIMEOUT.
C12_ReasoningTimeoutLonger ==
  (tm.timeoutMs # 0 /\ tm.isThinkingModel
     /\ MaxTokens(tm.maxOutputTokens) > LargeMaxTokens) =>
    tm.timeoutMs > TimeoutMs(FALSE, DefaultMaxTokens, tm.requestTimeout)

C14_WithinCapacity ==
  Len(cache) <= MaxCacheSize

\* C15 (SpecPool): the pool never tracks more than maxConnections entries.
\* Violated: cleanupOldestConnection removes idle entries only, so a
\* getConnection for a new endpoint while every entry is in use adds an
\* entry beyond the cap.
C15_WithinMaxConnections ==
  Len(connections) <= MaxConnections

\* the parts of the response's candidates
ResponseParts(geminiResponse) ==
  UNION {Tokens(geminiResponse.candidates[i].parts) :
           i \in DOMAIN geminiResponse.candidates}

\* C16 (SpecTransform): when the backend's response holds no function call
\* (no candidates at all, or answers that are empty or white space
\* included), the content of every choice returned is a non-empty string.
C16_ContentNeverEmpty ==
  (rt.pc = "done"
   /\ \A p \in ResponseParts(rt.geminiResponse) : ~p.functionCall)
  => \A i \in DOMAIN rt.result.choices :
       rt.result.choices[i].message.content # <<>>

\* a candidate without tool calls whose answer and reasoning are empty or
\* white space
NoUsableText(candidate) ==
  /\ ToolCalls(candidate.parts) = <<>>
  /\ Trim(CombinedContent(candidate.parts)) = <<>>
  /\ Trim(ThinkingContent(candidate.parts)) = <<>>

\* the finish reasons whose apologies are compared: a safety block, a
\* recitation block, a truncation, and STOP for the generic failure
ApologyReasons == {"SAFETY", "RECITATION", "MAX_TOKENS", "STOP"}

\* C17 (SpecTransform): for a candidate without tool calls and without
\* usable answer or reasoning text, the apology returned depends on the
\* finish reason: the same candidate with another of the reasons SAFETY,
\* RECITATION, MAX_TOKENS and generic failure gets a different wording.
C17_ApologyByFinishReason ==
  rt.pc = "done" =>
    \A i \in DOMAIN rt.geminiResponse.candidates :
      LET candidate == rt.geminiResponse.candidates[i]
      IN  (NoUsableText(candidate) /\ candidate.finishReason \in ApologyReasons)
          => \A other \in ApologyReasons \ {candidate.finishReason} :
               rt.result.choices[i].message.content #
                 TransformCandidateToChoice(
                   [candidate EXCEPT !.finishReason = other], i - 1,
                   EnableThinking(rt.openaiRequest)).message.content

\* C18 (SpecTransform): a choice that carries at least one tool call has
\* the finish_reason tool_calls, whatever finishReason the backend reported.
C18_ToolCallsFinishReason ==
  rt.pc = "done" =>
    \A i \in DOMAIN rt.result.choices :
      rt.result.choices[i].message.tool_calls # <<>>
        => rt.result.choices[i].finish_reason = "tool_calls"

\* the text that occurs in the candidate's reasoning parts only
ReasoningOnly(candidate) ==
  Tokens(ThinkingContent(candidate.parts))
    \ (Whitespace \cup Tokens(CombinedContent(candidate.parts)))

\* C19 (SpecTransform): with enable_thinking = false, the content returned
\* for a candidate that has reasoning parts holds no <think> delimiter and
\* no text of the reasoning parts, whatever the answer text is (empty
\* included).
C19_NoReasoningWhenDisabled ==
  (rt.pc = "done" /\ rt.openaiRequest.enable_thinking = "false") =>
    \A i \in DOMAIN rt.geminiResponse.candidates :
      LET candidate == rt.geminiResponse.candidates[i]
          content == rt.result.choices[i].message.content
      IN  ThinkingContent(candidate.parts) # <<>>
          => /\ ThinkOpen \notin Tokens(content)
             /\ Tokens(content) \cap ReasoningOnly(candidate) = {}

\* C20 (SpecTransform): a request that omits enable_thinking is handled
\* as one with enable_thinking = false in both directions: the same thinking
\* configuration goes to the backend, the same response goes to the client,
\* and it holds no <think> block.
C20_OmittedIsDisabled ==
  (rt.pc = "done" /\ rt.openaiRequest.enable_thinking = Undefined) =>
    LET disabled == [rt.openaiRequest EXCEPT !.enable_thinking = "false"]
    IN  /\ rt.geminiRequest = TransformOpenAIRequestToGemini(disabled)
        /\ rt.result = TransformGeminiResponseToOpenAI(rt.geminiResponse,
                                                       disabled)
        /\ \A i \in DOMAIN rt.result.choices :
             ThinkOpen \notin Tokens(rt.result.choices[i].message.content)

\* C21 (SpecUsage): completion_tokens is the backend's candidatesTokenCount
\* (0 when absent) and holds no reasoning tokens, and when the backend
\* reports reasoning tokens total_tokens is prompt_tokens +
\* completion_tokens + thoughtsTokenCount.
C21_UsageMapping ==
  rt.pc = "done" =>
    LET usageMetadata == rt.geminiResponse.usageMetadata
        usage == rt.result.usage
        thoughts == OrZero(usageMetadata.thoughtsTokenCount)
    IN  /\ usage.completion_tokens = OrZero(usageMetadata.candidatesTokenCount)
        /\ thoughts > 0 =>
             usage.total_tokens =
               usage.prompt_tokens + usage.completion_tokens + thoughts

\* a response with reasoning tokens and candidate tokens was transformed
C21_Witness ==
  /\ rt.pc = "done"
  /\ OrZero(rt.geminiResponse.usageMetadata.thoughtsTokenCount) > 0
  /\ OrZero(rt.geminiResponse.usageMetadata.candidatesTokenCount) > 0
  /\ rt.result.usage.total_tokens > rt.result.usage.completion_tokens

\* the events the stream has emitted
Emitted == sse.st.out

\* C22 (SpecStream): when the stream has ended, by the backend's [DONE] or
\* by the input closing, the output holds the terminal marker exactly
\* once, as its last event.
C22_TerminalMarkerOnce ==
  sse.pc = "closed" =>
    /\ Cardinality({i \in DOMAIN Emitted : Emitted[i].done}) = 1
    /\ Emitted[Len(Emitted)].done

\* a delta that carries text or a tool call
CarriesContent(event) ==
  ~event.done /\ (event.content # <<>> \/ event.tool_calls # <<>>)

\* C23 (SpecStream): of the deltas of one candidate, the first that
\* carries content also carries the role, and every delta after it omits
\* the role.
C23_RoleOnFirstDelta ==
  \A i \in DOMAIN Emitted :
    CarriesContent(Emitted[i]) =>
      LET first == \A j \in 1..(i - 1) :
                     ~(CarriesContent(Emitted[j])
                       /\ Emitted[j].index = Emitted[i].index)
      IN  Emitted[i].role = first

\* what the reassembler does with the same bytes in one chunk
OneChunk(bytes) == TransformChunk(NewStream, bytes)

\* the bytes the backend has written, and those of them delivered
Written == Flatten(sse.sent) \o sse.tail
Delivered == SubSeq(Written, 1, Len(Written) - Len(sse.wire))

\* C24 (SpecStream): however the backend's bytes are split into chunks,
\* the reassembler emits the events, and is in the state, that the same
\* bytes in one chunk give; after the flush as well.
C24_ChunkBoundaryIndependence ==
  IF sse.pc = "closed"
  THEN sse.st = FlushStream(OneChunk(Written))
  ELSE sse.st = OneChunk(Delivered)

\* a stream delivered in several chunks, one of which ended inside a
\* character and inside a line after events had been emitted
C24_Witness ==
  /\ sse.chunks = 2
  /\ sse.st.decoder # <<>>
  /\ sse.st.buffer # <<>>
  /\ Emitted # <<>>

\* the tool calls of the deltas emitted
EmittedToolCalls ==
  UNION {{Emitted[i].tool_calls[k] : k \in DOMAIN Emitted[i].tool_calls} :
           i \in DOMAIN Emitted}

\* C25 (SpecStream): the deltas of one function call share one tool-call
\* index: three chunks with a fragment each of the call of one function
\* give three deltas with the same index.
C25_StableToolCallIndex ==
  \A a \in EmittedToolCalls, b \in EmittedToolCalls :
    a.name = b.name => a.index = b.index

\* C26 (SpecStream): a line with malformed or partial JSON is skipped:
\* the stream emits what it emits without that line, and ends with the
\* terminal marker.
C26_MalformedLineSkipped ==
  sse.pc = "closed" =>
    /\ Emitted =
         FlushStream(OneChunk(
           Flatten(SelectSeq(sse.sent, LAMBDA line : line \notin BadLines))
           \o sse.tail)).out
    /\ Emitted[Len(Emitted)].done

\* a closed stream with a malformed line between two events that gave
\* their deltas
C26_Witness ==
  /\ sse.pc = "closed"
  /\ Len(sse.sent) = 3
  /\ sse.sent[1] \in GoodLines
  /\ sse.sent[2] \in BadLines
  /\ sse.sent[3] \in GoodLines
  /\ Len(Emitted) = 3

\* ======================================================================
\* the names of the functionResponse parts of the contents, in their order
RECURSIVE FunctionResponseNames(_)
FunctionResponseNames(contents) ==
  IF contents = <<>> THEN <<>>
  ELSE LET responses ==
             SelectSeq(Head(contents).parts,
                       LAMBDA part : part.kind = "functionResponse")
       IN  [i \in DOMAIN responses |-> responses[i].name]
           \o FunctionResponseNames(Tail(contents))

\* the messages before the i-th one that call a function
CallsBefore(messages, i) ==
  {j \in 1..(i - 1) : messages[j].tool_calls # <<>>}

\* the name of the function call that immediately precedes the i-th message
PrecedingCall(messages, i) ==
  LET j == CHOOSE k \in CallsBefore(messages, i) :
             \A l \in CallsBefore(messages, i) : l <= k
  IN  messages[j].tool_calls[Len(messages[j].tool_calls)]

\* for every tool message in its order, the name of the preceding call
RECURSIVE PrecedingCalls(_, _)
PrecedingCalls(messages, i) ==
  IF i > Len(messages) THEN <<>>
  ELSE (IF messages[i].role = "tool"
        THEN <<PrecedingCall(messages, i)>> ELSE <<>>)
       \o PrecedingCalls(messages, i + 1)

\* C27 (SpecRequest): in the request sent to the backend, every tool
\* message of a conversation whose tool messages all follow a function call
\* has become a functionResponse part, and the name of that part is the
\* name of the function call that immediately precedes the message.
C27_ToolResponseNamesPrecedingCall ==
  LET messages == rt.openaiRequest.messages
  IN  (/\ rt.pc # "idle"
       /\ \A i \in DOMAIN messages :
            messages[i].role = "tool" => CallsBefore(messages, i) # {})
      => FunctionResponseNames(rt.geminiRequest.contents)
           = PrecedingCalls(messages, 1)

\* C28 (SpecRequest): the maxOutputTokens sent to the backend is the
\* max_tokens of the client whenever the client supplies one, whatever the
\* other fields of the request are, and the maximum of the backend model
\* when max_tokens is absent.
C28_MaxTokensUnchanged ==
  rt.pc # "idle" =>
    rt.geminiRequest.maxOutputTokens
      = IF rt.openaiRequest.max_tokens # <<>>
        THEN rt.openaiRequest.max_tokens[1]
        ELSE ModelMaxTokens(rt.openaiRequest.model)

\* the models whose name contains 2.5
ReasoningFamily == {"gemini-2.5-flash"}

\* C29 (SpecRequest): for a model of the reasoning family the request sent
\* to the backend carries a thinkingConfig: with enable_thinking = true it
\* has includeThoughts = true and no thinkingBudget, with enable_thinking
\* false or absent it has includeThoughts = false and thinkingBudget = 0;
\* for any other model the request carries no thinkingConfig.
C29_ThinkingConfigByModel ==
  rt.pc # "idle" =>
    LET thinkingConfig == rt.geminiRequest.thinkingConfig
    IN  IF rt.openaiRequest.model \in ReasoningFamily
        THEN /\ thinkingConfig.present
             /\ IF rt.openaiRequest.enable_thinking = "true"
                THEN /\ thinkingConfig.includeThoughts
                     /\ "thinkingBudget" \notin DOMAIN thinkingConfig
                ELSE /\ ~thinkingConfig.includeThoughts
                     /\ "thinkingBudget" \in DOMAIN thinkingConfig
                     /\ thinkingConfig.thinkingBudget = 0
        ELSE ~thinkingConfig.present

\* a reasoning model's request with enable_thinking = true has been sent,
\* and so has one of another model
C29_Witness ==
  /\ rt.pc = "sent"
  /\ rt.openaiRequest.model \in ReasoningFamily
  /\ rt.openaiRequest.enable_thinking = "true"
  /\ rt.geminiRequest.thinkingConfig.present
  /\ rt.geminiRequest.thinkingConfig.includeThoughts


\* ======================================================================
\* C30 (SpecServer): a request whose validation finds the model missing,
\* the messages missing or not an array, or the model unknown is answered
\* with HTTP 400 and has caused no backend generation call.
C30_InvalidRequestAnswered400 ==
  \A h \in Handlers :
    (srv[h].pc = "responded" /\ srv[h].invalid # "none")
      => srv[h].status = 400 /\ srv[h].backendCalls = 0

\* ======================================================================
\* C31 (SpecCM): between two handlers (outside processQueue's loop) the
\* queue holds an entry only while all maxConcurrentRequests slots are
\* taken: a completion frees its slot and starts the next queued entry in
\* the same handler.
C31_WorkConserving ==
  cmPc = "idle" =>
    (QueueLength > 0 => ActiveCount >= maxConcurrentRequests)

\* an entry that had to wait for a slot is running after the executor of
\* another call has completed and resolved its promise
C31_Witness ==
  /\ cmPc = "idle"
  /\ \E r, s \in DOMAIN call :
       /\ call[r].activeAtCall >= maxConcurrentRequests
       /\ call[r].exec = "running"
       /\ call[s].promise = "resolved"

\* ======================================================================
\* the outcomes C32 counts as a failed attempt
C32_Failed(o) == o.kind # "response" \/ o.status # 200

\* what a request has done so far: at most min(maxRetries, poolSize) backend
\* calls, the k-th attempt (from 0) with key index k mod poolSize and no key
\* twice, and once the last permitted attempt has failed, that failure is
\* what the caller gets
C32_BoundedAttempts ==
  LET n == Len(keysUsed) IN
  /\ n <= Min({configMaxRetries, keyCount})
  /\ \A i \in 1..n : keysUsed[i] = (i - 1) % keyCount
  /\ \A i, j \in 1..n : keysUsed[i] = keysUsed[j] => i = j
  /\ (mrPc = "done" /\ n > 0 /\ n = Min({configMaxRetries, keyCount})
        /\ C32_Failed(script[n]))
       => mrResult = C8_Surfaced(script[n])

\* C32 (FairSpecMR): makeRequest terminates: a request makes at most
\* min(maxRetries, poolSize) backend calls, attempt k uses key index
\* k mod poolSize so that no key is used twice, the failure of the last
\* permitted attempt is surfaced to the caller, and every request that was
\* started ends.
C32_MakeRequestTerminates ==
  /\ []C32_BoundedAttempts
  /\ (mrPc \in {"fetch", "backoff"}) ~> (mrPc = "done")

\* every permitted attempt of a request with three keys failed and the last
\* failure was surfaced
C32_Witness ==
  /\ mrPc = "done"
  /\ Len(keysUsed) = 3
  /\ MaxRetries = 3
  /\ C32_Failed(script[3])
  /\ mrResult = C8_Surfaced(script[3])

\* ======================================================================
\* the calls executeRequest admitted
C33_Admitted == {r \in DOMAIN call : call[r].error \notin {"limited", "full"}}

\* the admitted calls still waiting in the queue
C33_Queued == {requestQueue[i].req : i \in 1..Len(requestQueue)}

C34_Urls(c) == {c[i].url : i \in 1..Len(c)}
C34_Idle(c) == {i \in 1..Len(c) : ~c[i].inUse}

\* a step that is getConnection(url) for an endpoint the pool does not
\* track, taken at the cap while some entry is idle
C34_NewAtCap(url) ==
  /\ url \notin C34_Urls(connections)
  /\ url \in C34_Urls(connections')
  /\ Len(connections) >= MaxConnections
  /\ C34_Idle(connections) # {}

\* no step removes an entry that is marked inUse
C34_InUseKept ==
  \A i \in 1..Len(connections) :
    connections[i].inUse => connections[i].url \in C34_Urls(connections')

\* C34 (SpecPool): a getConnection for a new endpoint at the cap, with some
\* entry idle, evicts exactly one entry, an idle one of the oldest lastUsed;
\* and no step, eviction or sweep, removes an entry marked inUse.
C34_EvictsOldestIdle ==
  [][/\ C34_InUseKept
     /\ \A url \in Endpoints :
          C34_NewAtCap(url) =>
            \E i \in C34_Idle(connections) :
              /\ \A j \in C34_Idle(connections) :
                   connections[i].lastUsed <= connections[j].lastUsed
              /\ C34_Urls(connections')
                   = (C34_Urls(connections) \ {connections[i].url})
                     \cup {url}]_vars

\* ======================================================================
\* C35 (SpecPool): an endpoint that some caller has acquired and not yet
\* released has an entry marked inUse: with two overlapping acquisitions,
\* one release does not make the entry idle.
C35_InUseWhileHeld ==
  \A url \in Endpoints :
    holders[url] > 0 =>
      \E i \in 1..Len(connections) :
        connections[i].url = url /\ connections[i].inUse

\* ======================================================================
\* C36 (SpecCache): whatever get(u) returns in a state is a payload that
\* was stored for the URI u: the entry under u's key that get reads was set
\* for u and not for another URI.
C36_KeyIsolation ==
  \A url \in Urls :
    GetResult(url).hit =>
      cache[Min(CacheIndex(cache, GetCacheKey(url)))].url = url

\* ======================================================================
\* C37 (SpecCMKeys): the statistics are conserved: totalRequests is the sum
\* of completedRequests, failedRequests, the number of active requests and
\* the length of the queue, whatever was submitted, rejected and completed.
C37_StatsConserved ==
  stats.totalRequests
    = stats.completedRequests + stats.failedRequests + ActiveCount
      + QueueLength


\* the content of the deltas emitted for candidate c, in emission order
RECURSIVE EmittedText(_, _)
EmittedText(events, c) ==
  IF events = <<>> THEN <<>>
  ELSE (IF ~Head(events).done /\ Head(events).index = c
        THEN Head(events).content ELSE <<>>)
       \o EmittedText(Tail(events), c)

\* the texts of the parts of one candidate, in their order
RECURSIVE PartsText(_)
PartsText(parts) ==
  IF parts = <<>> THEN <<>>
  ELSE Head(parts).text \o PartsText(Tail(parts))

\* the text parts that arrived for candidate c in the lines the backend
\* wrote, in their order
RECURSIVE ArrivedText(_, _)
ArrivedText(lines, c) ==
  IF lines = <<>> THEN <<>>
  ELSE LET line == Head(lines)
           chunk == IF \E body \in Bodies : line = EventLine(body)
                    THEN GeminiChunk(CHOOSE body \in Bodies :
                                       line = EventLine(body))
                    ELSE <<>>
       IN  (IF c < Len(chunk) THEN PartsText(chunk[c + 1].parts) ELSE <<>>)
           \o ArrivedText(Tail(lines), c)

\* C38 (SpecStreamParts): the reassembler loses and reorders no text: when
\* the stream has closed, for each candidate the concatenation of
\* delta.content over the emitted deltas, in emission order, is the
\* concatenation of that candidate's text parts in the order they arrived,
\* also when one chunk of the backend carries several text parts.
C38_NoTextLost ==
  sse.pc = "closed" =>
    \A c \in 0..1 : EmittedText(Emitted, c) = ArrivedText(sse.sent, c)


\* the texts of the parts marked thought in the lines the backend wrote
ArrivedThoughtTexts ==
  UNION {UNION {{chunk[c].parts[k].text :
                   k \in {j \in DOMAIN chunk[c].parts :
                            chunk[c].parts[j].thought}} :
                c \in DOMAIN chunk} :
           chunk \in {GeminiChunk(body) :
                        body \in {b \in Bodies :
                                    \E i \in DOMAIN sse.sent :
                                      sse.sent[i] = EventLine(b)}}}

\* C39 (SpecStreamParts): the reassembler applies the reasoning rule of the
\* non-streaming transformer: when reasoning is disabled for the exchange,
\* the text of a part marked thought = true is in no delta.content.
C39_ThoughtTextNotStreamed ==
  ~sse.enableThinking =>
    \A i \in DOMAIN Emitted :
      ~Emitted[i].done => Emitted[i].content \notin ArrivedThoughtTexts


\* the class the utilizations of a load fall in: healthy up to 80% of the
\* queue and 90% of the slots, overloaded above 95% of either, degraded
\* between
C40_Class(queueLength, active) ==
  IF /\ queueLength * 100 <= 80 * maxQueueSize
     /\ active * 100 <= 90 * maxConcurrentRequests
  THEN "healthy"
  ELSE IF \/ queueLength * 100 > 95 * maxQueueSize
          \/ active * 100 > 95 * maxConcurrentRequests
  THEN "overloaded"
  ELSE "degraded"

\* C40 (SpecHealth): getHealthStatus reports healthy while the queue
\* utilization is at most 80% and the concurrency utilization at most 90%,
\* overloaded when either exceeds 95% and degraded otherwise, for every
\* load the capacities allow; the status returned is that of the current
\* queue length and active count, whatever the other statistics are.
C40_HealthClassification ==
  /\ \A queueLength \in 0..maxQueueSize, active \in 0..maxConcurrentRequests :
       HealthStatus(queueLength, active) = C40_Class(queueLength, active)
  /\ health # NoHealth =>
       health.status = C40_Class(QueueLength, ActiveCount)

\* getHealthStatus has answered degraded for 19 of 20 slots taken, after
\* earlier calls completed and failed
C40_Witness ==
  /\ health.status = "degraded"
  /\ maxConcurrentRequests = 20
  /\ ActiveCount = 19
  /\ QueueLength = 0
  /\ stats.completedRequests = 1
  /\ stats.failedRequests = 1
  /\ health.successRate = 5

======================================================================
